---- MODULE Spec2Model ----
(***************************************************************************)
(* SDLC agent: the stage registry (src/state/sdlc_state.py), the retrying  *)
(* LangGraph engine (src/graph/sdlc_graph.py) and the session operations   *)
(* (src/main.py) that run the dynamically built graph                      *)
(* (src/graph/dynamic_graph_builder.py) over the stage nodes (src/nodes).  *)
(*                                                                         *)
(* The specifications share the variables:                                 *)
(*   EngineSpec / EngineFairSpec  one run of create_sdlc_graph's graph     *)
(*   Spec                         the session store of src/main.py         *)
(*   ApiSpec, TaskSpec,           the endpoints and background tasks of    *)
(*   SubmitSpec                   api.py over src/main.py                  *)
(*   ClassifiedSpec               a session of src/main.py on the graph of *)
(*                                a given classification, node by node     *)
(*   StageSpec, GraphSpec,        get_next_stage / advance_stage, the      *)
(*   MonitorSpec                  graph builders and the monitor as pure   *)
(*                                functions over drawn inputs              *)
(*   AppSpec, StoreSpec           the Streamlit front end of app.py        *)
(***************************************************************************)
EXTENDS Integers, Sequences, FiniteSets, TLC

VARIABLES
    node,       \* engine: the node LangGraph executes next, or END
    gstate,     \* engine: the SDLCGraphState dictionary
    execs,      \* engine (observer): executions of each operation's body
    everOk,     \* engine (observer): operations whose body has returned normally
    failures,   \* engine (observer): body failures so far in this run
    sessions,   \* main.py: the global sessions dictionary
    clock,      \* main.py: the value datetime.now() returns
    call,       \* main.py (observer): the last call, its arguments and its outcome
    reg,        \* stage registry: the stages visited by repeated next-stage queries
    built,      \* graph builders (observer): the graphs built so far
    app,        \* app.py: the Streamlit session and its last feedback submission
    response,   \* api.py (observer): the last HTTP response
    session_state,  \* app.py: st.session_state (sessions, session_id, current_stage)
    tasks,      \* api.py: the background tasks added and not yet run, and those run
    monitored   \* workflow_monitor.py (observer): the monitor's calls and results

vars == <<node, gstate, execs, everOk, failures, sessions, clock, call, reg,
          built, app, response, session_state, tasks, monitored>>

engineVars == <<node, gstate, execs, everOk, failures>>
mainVars == <<sessions, clock, call>>
sideVars == <<built, app, session_state, tasks, monitored>>

-----------------------------------------------------------------------------
(* Bounds of the model *)

MaxExecs == 6       \* executions counted exactly below this; beyond it the counter alternates
MaxFailures == 7    \* body failures the environment injects in one engine run
MaxCalls == 2       \* feedback submissions per behaviour of Spec
MaxSessions == 1    \* requirements submissions that store a session
MaxClock == 2       \* largest clock value
MaxTrace == 4       \* next-stage queries chained in StageSpec
MaxBuilds == 1      \* graphs built in one behaviour of GraphSpec
MaxAppCalls == 3    \* feedback submissions in one behaviour of AppSpec
MaxRequests == 1    \* GET requests in one behaviour of ApiSpec
MaxSubmissions == 4 \* requirements submissions in one behaviour of StoreSpec
MaxTasks == 2       \* feedback tasks added in one behaviour of TaskSpec
MaxHistory == 3     \* history entries of a state given to the monitor in MonitorSpec
MaxMonitorRuns == 1 \* calls of the monitor in one behaviour of MonitorSpec
MaxPosts == 1       \* requirements submissions over HTTP in one behaviour of SubmitSpec
MaxFeedbacks == 1   \* feedback submissions in one behaviour of SubmitSpec
MaxApprovals == 4   \* approvals of one session in one behaviour of ClassifiedSpec
MaxAttempts == 4    \* attempts of the model call whose outcomes are drawn in AppSpec
MaxUnits == 7       \* largest time of a phase given to the analysis in MonitorSpec

-----------------------------------------------------------------------------
(* Stage registry: class SDLCStage and SDLCState.get_next_stage *)

REQUIREMENTS == "REQUIREMENTS"
USER_STORIES == "USER_STORIES"
DESIGN == "DESIGN"
CODE == "CODE"
SECURITY == "SECURITY"
TESTING == "TESTING"
COMPLETE == "COMPLETE"

SDLCStage == {REQUIREMENTS, USER_STORIES, DESIGN, CODE, SECURITY, TESTING, COMPLETE}

\* the list `stages` built inside get_next_stage
stages == <<REQUIREMENTS, USER_STORIES, DESIGN, CODE, SECURITY, TESTING, COMPLETE>>

\* list.index: the first position of x; the caller handles the ValueError case
index(seq, x) == CHOOSE i \in 1..Len(seq) : seq[i] = x /\ \A j \in 1..(i-1) : seq[j] # x

get_next_stage_unknown(current_stage) ==
    IF \E i \in 1..Len(stages) : stages[i] = current_stage
    THEN LET current_index == index(stages, current_stage)
         IN  IF current_index < Len(stages) THEN stages[current_index + 1] ELSE COMPLETE
    ELSE current_stage

get_next_stage_wrap(current_stage) ==
    IF \E i \in 1..Len(stages) : stages[i] = current_stage
    THEN LET current_index == index(stages, current_stage)
         IN  IF current_index < Len(stages) THEN stages[current_index + 1] ELSE REQUIREMENTS
    ELSE REQUIREMENTS

get_next_stage_skip(current_stage) ==
    IF \E i \in 1..Len(stages) : stages[i] = current_stage
    THEN LET current_index == index(stages, current_stage)
         IN  IF current_index + 1 < Len(stages) THEN stages[current_index + 2] ELSE COMPLETE
    ELSE REQUIREMENTS

\* SDLCState.get_next_stage: the successor in `stages`, COMPLETE at the end of
\* the list, and REQUIREMENTS when stages.index raises ValueError
get_next_stage(current_stage) ==
    IF \E i \in 1..Len(stages) : stages[i] = current_stage
    THEN LET current_index == index(stages, current_stage)
         IN  IF current_index < Len(stages) THEN stages[current_index + 1] ELSE COMPLETE
    ELSE REQUIREMENTS

\* advance_stage of app.py, as the stage it returns: an if/elif chain over the
\* six non-terminal stages, and the argument itself in the else branch
advance_stage(current_stage) ==
    IF current_stage = REQUIREMENTS THEN USER_STORIES
    ELSE IF current_stage = USER_STORIES THEN DESIGN
    ELSE IF current_stage = DESIGN THEN CODE
    ELSE IF current_stage = CODE THEN SECURITY
    ELSE IF current_stage = SECURITY THEN TESTING
    ELSE IF current_stage = TESTING THEN COMPLETE
    ELSE current_stage

-----------------------------------------------------------------------------
(* The engine of src/graph/sdlc_graph.py *)

END == "__end__"
RetryLimit == 3

Operations == {"analyze_requirements", "generate_user_stories",
               "process_user_stories_feedback", "generate_design_documents",
               "process_design_feedback"}

\* state["feedback"][stage]: absent, or a dictionary with an "approved" flag
FeedbackFlags == {"absent", "approved", "rejected"}

\* the stages whose nodes this graph holds; a caller may attach feedback to each
FeedbackStages == {REQUIREMENTS, USER_STORIES, DESIGN}

\* state.get("retries", {}).get(operation, 0); current_operation is "unknown"
\* until a node has set it
retries_of(state, operation) ==
    IF operation \in Operations THEN state.retries[operation] ELSE 0

should_retry_operation_two(state) ==
    IF ~state.error THEN FALSE
    ELSE retries_of(state, state.current_operation) < RetryLimit - 1

should_retry_operation_inclusive(state) ==
    IF ~state.error THEN FALSE
    ELSE retries_of(state, state.current_operation) <= RetryLimit

should_retry_operation(state) ==
    IF ~state.error THEN FALSE
    ELSE retries_of(state, state.current_operation) < RetryLimit

\* The advisory current_stage a stage function returns on success; the
\* feedback variants revise the artifact of the stage the session is on
body_result(operation, state) ==
    CASE operation = "analyze_requirements" -> [state EXCEPT !.current_stage = USER_STORIES]
      [] operation = "generate_user_stories" -> [state EXCEPT !.current_stage = DESIGN]
      [] operation = "generate_design_documents" -> [state EXCEPT !.current_stage = CODE]
      [] OTHER -> state

run_node_copied_key(operation, state, ok) ==
    LET s1 == [state EXCEPT !.current_operation = operation]
        s2 == IF s1.error /\ should_retry_operation(s1)
              THEN [s1 EXCEPT !.retries["analyze_requirements"] = @ + 1, !.error = FALSE]
              ELSE s1
    IN  IF ok THEN body_result(operation, s2) ELSE [s2 EXCEPT !.error = TRUE]

\* requirements_node, user_stories_node, user_stories_feedback_node, design_node,
\* design_feedback_node: the same wrapper around one stage function each.
\* ok = FALSE is the stage function raising.
run_node(operation, state, ok) ==
    LET s1 == [state EXCEPT !.current_operation = operation]
        s2 == IF s1.error /\ should_retry_operation(s1)
              THEN [s1 EXCEPT !.retries[operation] = @ + 1, !.error = FALSE]
              ELSE s1
    IN  IF ok THEN body_result(operation, s2) ELSE [s2 EXCEPT !.error = TRUE]

error_handler_node(state) ==
    LET operation == state.current_operation
        retries == retries_of(state, operation)
    IN  IF retries >= RetryLimit
        THEN [state EXCEPT !.history = Append(@, [type |-> "error",
                                                   operation |-> operation,
                                                   retries |-> retries]),
                           !.error = FALSE]
        ELSE state

next_after_requirements(state) ==
    IF state.error THEN "error_handler" ELSE "generate_user_stories"

next_after_user_stories_feedback_first(state) ==
    IF state.feedback[USER_STORIES] = "rejected" THEN "process_user_stories_feedback"
    ELSE IF state.error THEN "error_handler"
    ELSE "generate_design_documents"

next_after_user_stories(state) ==
    IF state.error THEN "error_handler"
    ELSE IF state.feedback[USER_STORIES] = "rejected" THEN "process_user_stories_feedback"
    ELSE "generate_design_documents"

next_after_user_stories_feedback(state) ==
    IF state.error THEN "error_handler"
    ELSE IF state.feedback[USER_STORIES] = "approved" THEN "generate_design_documents"
    ELSE "process_user_stories_feedback"

next_after_design(state) ==
    IF state.error THEN "error_handler"
    ELSE IF state.feedback[DESIGN] = "rejected" THEN "process_design_feedback"
    ELSE END

next_after_design_feedback(state) ==
    IF state.error THEN "error_handler"
    ELSE IF state.feedback[DESIGN] = "approved" THEN END
    ELSE "process_design_feedback"

next_after_error_handler_same_stage(state) ==
    IF state.error /\ should_retry_operation(state)
    THEN state.current_operation
    ELSE IF state.current_stage = REQUIREMENTS THEN "analyze_requirements"
    ELSE IF state.current_stage = USER_STORIES THEN "generate_user_stories"
    ELSE IF state.current_stage = DESIGN THEN "generate_design_documents"
    ELSE END

next_after_error_handler(state) ==
    IF state.error /\ should_retry_operation(state)
    THEN state.current_operation
    ELSE IF state.current_stage = REQUIREMENTS THEN "generate_user_stories"
    ELSE IF state.current_stage = USER_STORIES THEN "generate_design_documents"
    ELSE END

\* The conditional edge added for each node
edge_of(operation, state) ==
    CASE operation = "analyze_requirements" -> next_after_requirements(state)
      [] operation = "generate_user_stories" -> next_after_user_stories(state)
      [] operation = "process_user_stories_feedback" -> next_after_user_stories_feedback(state)
      [] operation = "generate_design_documents" -> next_after_design(state)
      [] operation = "process_design_feedback" -> next_after_design_feedback(state)

Saturate(n) == IF n < MaxExecs THEN n + 1 ELSE MaxExecs - 1

\* One node execution followed by its conditional edge. The stage function
\* returns or raises; the environment injects at most MaxFailures failures.
ExecuteNode(operation) ==
    /\ node = operation
    /\ \E ok \in BOOLEAN :
         /\ ok \/ failures < MaxFailures
         /\ LET s == run_node(operation, gstate, ok)
            IN  /\ gstate' = s
                /\ node' = edge_of(operation, s)
         /\ everOk' = IF ok THEN everOk \cup {operation} ELSE everOk
         /\ failures' = IF ok THEN failures ELSE failures + 1
    /\ execs' = [execs EXCEPT ![operation] = Saturate(@)]
    /\ UNCHANGED <<mainVars, reg, sideVars, response>>

RequirementsNode == ExecuteNode("analyze_requirements")
UserStoriesNode == ExecuteNode("generate_user_stories")
UserStoriesFeedbackNode == ExecuteNode("process_user_stories_feedback")
DesignNode == ExecuteNode("generate_design_documents")
DesignFeedbackNode == ExecuteNode("process_design_feedback")

ErrorHandlerNode ==
    /\ node = "error_handler"
    /\ LET s == error_handler_node(gstate)
       IN  /\ gstate' = s
           /\ node' = next_after_error_handler(s)
    /\ UNCHANGED <<execs, everOk, failures, mainVars, reg, sideVars, response>>

\* graph.set_entry_point("analyze_requirements") on a fresh session state; the
\* caller may have attached feedback for the two stages the edges look at
EngineIdle ==
    /\ node = END
    /\ gstate = [current_stage |-> REQUIREMENTS, current_operation |-> "unknown",
                 error |-> FALSE, retries |-> [o \in Operations |-> 0],
                 history |-> <<>>,
                 feedback |-> [s \in FeedbackStages |-> "absent"]]
    /\ execs = [o \in Operations |-> 0]
    /\ everOk = {}
    /\ failures = 0

MainIdle ==
    /\ sessions = <<>>
    /\ clock = 0
    /\ call = [kind |-> "none", seq |-> 0]

StageIdle == reg = <<>>

\* nothing built, no Streamlit session, no HTTP request answered
SideIdle ==
    /\ built = <<>>
    /\ app = [created |-> FALSE]
    /\ response = [endpoint |-> "none", requests |-> 0]
    /\ session_state = [sessions |-> <<>>, session_id |-> "None",
                        current_stage |-> "None", submissions |-> 0]
    /\ tasks = [pending |-> {}, added |-> 0, done |-> <<>>]
    /\ monitored = <<>>

EngineInit ==
    /\ node = "analyze_requirements"
    /\ \E fb \in [FeedbackStages -> FeedbackFlags] :
         gstate = [current_stage |-> REQUIREMENTS, current_operation |-> "unknown",
                   error |-> FALSE, retries |-> [o \in Operations |-> 0],
                   history |-> <<>>, feedback |-> fb]
    /\ execs = [o \in Operations |-> 0]
    /\ everOk = {}
    /\ failures = 0
    /\ MainIdle
    /\ StageIdle
    /\ SideIdle

EngineNext ==
    \/ RequirementsNode
    \/ UserStoriesNode
    \/ UserStoriesFeedbackNode
    \/ DesignNode
    \/ DesignFeedbackNode
    \/ ErrorHandlerNode

EngineSpec == EngineInit /\ [][EngineNext]_vars

\* LangGraph keeps executing nodes until an edge returns END
EngineFairSpec == EngineSpec /\ WF_vars(EngineNext)

-----------------------------------------------------------------------------
(* The session state of src/state/sdlc_state.py *)

\* The stage arguments a caller passes to process_feedback: three stages that
\* stage_node_mapping knows and one that it does not
StageArgs == {REQUIREMENTS, USER_STORIES, DESIGN, COMPLETE}

\* Feedback comments: the empty string and a non-empty one
Comments == {"", "c"}

\* Artifact contents: None, a node's fixed "missing prerequisite" message, and
\* two texts the generative model may return
Generated == {"g1", "g2"}

\* SDLCState(session_id=..., current_stage=REQUIREMENTS, requirements=...)
\* with every other field at its default
new_state(requirements, now) ==
    [current_stage |-> REQUIREMENTS,
     requirements |-> requirements,
     user_stories |-> "None",
     functional_design |-> "None",
     non_functional_design |-> "None",
     code_artifacts |-> "None",
     security_findings |-> "None",
     test_cases |-> "None",
     test_results |-> "None",
     feedback |-> [s \in StageArgs |-> <<>>],
     created_at |-> now,
     last_updated |-> now,
     history |-> <<>>,
     monitoring |-> [computed |-> FALSE],
     complexity_analysis |-> "None"]

\* SDLCState.update_stage
update_stage(state, new_stage, now) ==
    [state EXCEPT !.history = Append(@, [stage |-> state.current_stage, timestamp |-> now]),
                  !.current_stage = new_stage,
                  !.last_updated = now]

\* SDLCState.add_feedback; a stage that is no key yet reads as the empty list
add_feedback(state, stage, feedback_text, now) ==
    [state EXCEPT !.feedback[stage] = Append(@, feedback_text),
                  !.last_updated = now]

-----------------------------------------------------------------------------
(* The graph of src/graph/dynamic_graph_builder.py over the nodes of src/nodes *)

default_analysis_high ==
    [complexity |-> "high", security_critical |-> TRUE,
     performance_critical |-> FALSE, data_intensive |-> FALSE,
     user_interface_focused |-> TRUE, integration_heavy |-> FALSE]

\* analyze_project_complexity: the model's response is not parsed, the
\* function returns default_analysis
default_analysis ==
    [complexity |-> "medium", security_critical |-> TRUE,
     performance_critical |-> FALSE, data_intensive |-> FALSE,
     user_interface_focused |-> TRUE, integration_heavy |-> FALSE]

analyze_project_complexity(requirements) == default_analysis

needs_architecture_review_medium(analysis) == analysis.complexity # "low"

\* `if analysis.get("complexity") == "high"`
needs_architecture_review(analysis) == analysis.complexity = "high"

\* `if analysis.get("security_critical")`
needs_security(analysis) == analysis.security_critical

\* the add_node calls of build_sdlc_graph
graph_nodes(analysis) ==
    {"requirements", "user_stories", "design", "code", "test"}
        \cup (IF needs_architecture_review(analysis) THEN {"architecture_review"} ELSE {})
        \cup (IF needs_security(analysis) THEN {"security"} ELSE {})

\* the add_edge calls of build_sdlc_graph, as <<from, to>> pairs
graph_edges(analysis) ==
    {<<"requirements", "user_stories">>, <<"user_stories", "design">>}
        \cup (IF needs_architecture_review(analysis)
              THEN {<<"design", "architecture_review">>, <<"architecture_review", "code">>}
              ELSE {<<"design", "code">>})
        \cup (IF needs_security(analysis)
              THEN {<<"code", "security">>, <<"security", "test">>}
              ELSE {<<"code", "test">>})
        \cup {<<"test", END>>}

\* build_sdlc_graph, from the analysis it computes: the nodes, the edges, and
\* the edge out of each node as a function. The source sets no entry point
\* (entry_points is empty); where the library accepts such a graph a run starts
\* at "requirements", the head of the chain of edges, and where it refuses it
\* the build raises before the session is stored (analyzer_ok = FALSE below).
graph_of(analysis) ==
    [nodes |-> graph_nodes(analysis),
     edge_set |-> graph_edges(analysis),
     conditional |-> {},
     entry_points |-> {},
     edges |-> [n \in graph_nodes(analysis) |->
                  CHOOSE m \in graph_nodes(analysis) \cup {END} :
                      <<n, m>> \in graph_edges(analysis)],
     entry |-> "requirements"]

build_sdlc_graph(requirements) == graph_of(analyze_project_complexity(requirements))

Truthy(v) == v \notin {"None", "", "empty"}

\* Whether a node, run on this state, reaches its calls of the generative
\* model (get_llm and llm.invoke, which may raise) or returns before them
calls_model(n, state) ==
    CASE n = "requirements" -> Truthy(state.requirements)
      [] n = "user_stories" -> Truthy(state.requirements)
      [] n = "design" -> Truthy(state.requirements) /\ Truthy(state.user_stories)
      [] n = "architecture_review" -> Truthy(state.functional_design)
      [] n = "code" -> Truthy(state.functional_design) /\ Truthy(state.non_functional_design)
      [] n = "security" -> Truthy(state.code_artifacts)
      [] n = "test" -> Truthy(state.code_artifacts)

\* requirement_analysis_node: the keys of its result that are fields of the state
requirement_analysis_node(state, gen, now) ==
    IF ~Truthy(state.requirements)
    THEN [state EXCEPT !.current_stage = REQUIREMENTS]
    ELSE [state EXCEPT !.complexity_analysis = "assessed",
                       !.current_stage = USER_STORIES,
                       !.last_updated = now]

user_story_generator_node(state, gen, now) ==
    IF ~Truthy(state.requirements)
    THEN [state EXCEPT !.user_stories = "placeholder",
                       !.current_stage = REQUIREMENTS]
    ELSE [state EXCEPT !.user_stories = gen,
                       !.current_stage = DESIGN,
                       !.last_updated = now]

design_document_generator_node(state, gen, now) ==
    IF ~Truthy(state.requirements) \/ ~Truthy(state.user_stories)
    THEN [state EXCEPT !.functional_design = "placeholder",
                       !.non_functional_design = "placeholder",
                       !.current_stage = IF ~Truthy(state.user_stories)
                                         THEN USER_STORIES ELSE REQUIREMENTS]
    ELSE [state EXCEPT !.functional_design = gen,
                       !.non_functional_design = gen,
                       !.current_stage = CODE,
                       !.last_updated = now]

\* process_design_with_image returns only "design_review", no field of the state
process_design_with_image(state, gen, now) == state

code_generator_node(state, gen, now) ==
    IF ~Truthy(state.functional_design) \/ ~Truthy(state.non_functional_design)
    THEN [state EXCEPT !.code_artifacts = "empty",
                       !.current_stage = DESIGN]
    ELSE [state EXCEPT !.code_artifacts = gen,
                       !.current_stage = SECURITY,
                       !.last_updated = now]

security_review_node(state, gen, now) ==
    IF ~Truthy(state.code_artifacts)
    THEN [state EXCEPT !.security_findings = "placeholder",
                       !.current_stage = CODE]
    ELSE [state EXCEPT !.security_findings = gen,
                       !.current_stage = TESTING,
                       !.last_updated = now]

test_generator_node_lower(state, gen, now) ==
    IF ~Truthy(state.code_artifacts)
    THEN [state EXCEPT !.test_cases = "placeholder",
                       !.test_results = "placeholder",
                       !.current_stage = CODE]
    ELSE [state EXCEPT !.test_cases = gen,
                       !.test_results = gen,
                       !.current_stage = "complete",
                       !.last_updated = now]

test_generator_node(state, gen, now) ==
    IF ~Truthy(state.code_artifacts)
    THEN [state EXCEPT !.test_cases = "placeholder",
                       !.test_results = "placeholder",
                       !.current_stage = CODE]
    ELSE [state EXCEPT !.test_cases = gen,
                       !.test_results = gen,
                       !.current_stage = COMPLETE,
                       !.last_updated = now]

\* graph.add_node(name, function)
node_function(n, state, gen, now) ==
    CASE n = "requirements" -> requirement_analysis_node(state, gen, now)
      [] n = "user_stories" -> user_story_generator_node(state, gen, now)
      [] n = "design" -> design_document_generator_node(state, gen, now)
      [] n = "architecture_review" -> process_design_with_image(state, gen, now)
      [] n = "code" -> code_generator_node(state, gen, now)
      [] n = "security" -> security_review_node(state, gen, now)
      [] n = "test" -> test_generator_node(state, gen, now)

\* sdlc_graph.invoke(state): the nodes run along the edges from the entry to
\* END, each result merged into the state. The nodes are added unwrapped, so
\* an exception of a node (its model call failing, model_ok = FALSE) leaves
\* invoke as an exception and no result is returned. The second argument of
\* invoke in process_feedback, {"target_node": ...}, is a run configuration
\* no node or edge reads.
RECURSIVE run_from(_, _, _, _, _, _)
run_from(graph, n, state, model_ok, gen, now) ==
    IF n = END THEN [raised |-> FALSE, state |-> state]
    ELSE IF ~model_ok /\ calls_model(n, state) THEN [raised |-> TRUE, state |-> state]
    ELSE LET merged == CHOOSE s \in {node_function(n, state, gen, now)} : TRUE
         IN  run_from(graph, graph.edges[n], merged, model_ok, gen, now)

invoke(graph, state, model_ok, gen, now) ==
    run_from(graph, graph.entry, state, model_ok, gen, now)

\* get_dynamic_graph_description from the analysis it computes: the
\* numbered lines after the heading
graph_description_of(analysis) ==
    LET high == analysis.complexity = "high"
        sec == analysis.security_critical
        head == << [number |-> 1, title |-> "Requirements Analysis"],
                   [number |-> 2, title |-> "User Story Generation"],
                   [number |-> 3, title |-> "Design Document Creation"] >>
        mid == IF high
               THEN << [number |-> 4, title |-> "Architectural Review"],
                       [number |-> 5, title |-> "Code Generation"] >>
               ELSE << [number |-> 4, title |-> "Code Generation"] >>
        tail == IF sec
                THEN IF high
                     THEN << [number |-> 6, title |-> "Security Review"],
                             [number |-> 7, title |-> "Test Generation"] >>
                     ELSE << [number |-> 5, title |-> "Security Review"],
                             [number |-> 6, title |-> "Test Generation"] >>
                ELSE IF high
                     THEN << [number |-> 6, title |-> "Test Generation"] >>
                     ELSE << [number |-> 5, title |-> "Test Generation"] >>
    IN  head \o mid \o tail

get_dynamic_graph_description(requirements) ==
    graph_description_of(analyze_project_complexity(requirements))

-----------------------------------------------------------------------------
(* The monitor of src/monitoring/workflow_monitor.py *)

duration_closed(history, i, now) ==
    IF i < Len(history) THEN history[i + 1].timestamp - history[i].timestamp
    ELSE 0

\* the seconds between history entry i and the next one, or `now` after the last
duration(history, i, now) ==
    IF i < Len(history) THEN history[i + 1].timestamp - history[i].timestamp
    ELSE now - history[i].timestamp

RECURSIVE sum_durations(_, _, _)
sum_durations(history, indices, now) ==
    IF indices = {} THEN 0
    ELSE LET i == CHOOSE j \in indices : TRUE
         IN  duration(history, i, now) + sum_durations(history, indices \ {i}, now)

\* the defaultdict phase_times: a key for every stage named in history
phase_times_of(history, now) ==
    [p \in {history[i].stage : i \in 1..Len(history)} |->
        sum_durations(history, {i \in 1..Len(history) : history[i].stage = p}, now)]

RECURSIVE sum_values(_, _)
sum_values(f, keys) ==
    IF keys = {} THEN 0
    ELSE LET k == CHOOSE x \in keys : TRUE IN f[k] + sum_values(f, keys \ {k})

RECURSIVE sum_squares(_, _, _, _)
sum_squares(f, keys, n, total) ==
    IF keys = {} THEN 0
    ELSE LET k == CHOOSE x \in keys : TRUE
         IN  (n * f[k] - total) * (n * f[k] - total) + sum_squares(f, keys \ {k}, n, total)

\* The float results that decide the two comparisons of
\* analyze_workflow_efficiency when the exact value lies on the threshold:
\* (time / total_time) * 100 for a share of exactly 30% comes out as 30.0,
\* as 30.000000000000004 or as 29.999999999999993, and the score for an exact
\* 400 as 400.0, 399.99999999999994 or 400.0000000000001, depending on the
\* operands (3.0 s of 10.0 s; 1.426776 s of 4.75592 s; 21.321039 s of
\* 71.07013 s). Away from the thresholds the comparisons are exact.
ExactRounding == [percentage |-> 0, score |-> 0]
Roundings == {ExactRounding, [percentage |-> 1, score |-> -1],
              [percentage |-> -1, score |-> 1]}

\* analyze_workflow_efficiency(phase_times), in exact arithmetic: with n
\* phases of total T, percentage > 30 is 100 t > 30 T, and
\* efficiency_score < 400 is 25 * sum((n t - T)^2) < n^3 T^2. It raises
\* ZeroDivisionError when T = 0 (time / total_time) or n = 0.
analyze_workflow_efficiency(phase_times, rounding) ==
    LET n == Cardinality(DOMAIN phase_times)
        total_time == sum_values(phase_times, DOMAIN phase_times)
        spread == 25 * sum_squares(phase_times, DOMAIN phase_times, n, total_time)
        limit == n * n * n * total_time * total_time
    IN  IF n = 0 \/ total_time = 0
        THEN [raised |-> TRUE]
        ELSE [raised |-> FALSE,
              total_time_seconds |-> total_time,
              bottlenecks |-> {q \in DOMAIN phase_times :
                                 \/ phase_times[q] * 100 > 30 * total_time
                                 \/ /\ phase_times[q] * 100 = 30 * total_time
                                    /\ rounding.percentage > 0},
              balanced |-> \/ spread < limit
                           \/ spread = limit /\ rounding.score < 0]

\* `if history and len(phase_times) > 1`: whether the insight call is made
insight_call(history) ==
    history # <<>> /\ Cardinality({history[i].stage : i \in 1..Len(history)}) > 1

\* monitor_workflow_progress. It raises ZeroDivisionError when phase_times is
\* empty (time_variance / len(phase_times)) or sums to zero (time / total_time),
\* and passes on an exception of the insight call, which it makes when
\* history is non-empty and phase_times has more than one key. The clock
\* counts whole ticks, for which no share is 30% and the quotients are exact.
monitor_workflow_progress(state, now, llm_ok) ==
    LET history == state.history
        phase_times == phase_times_of(history, now)
        analysis == analyze_workflow_efficiency(phase_times, ExactRounding)
        insights_needed == insight_call(history)
    IN  IF analysis.raised \/ (insights_needed /\ ~llm_ok)
        THEN [raised |-> TRUE, monitoring |-> state.monitoring]
        ELSE [raised |-> FALSE,
              monitoring |-> [computed |-> TRUE,
                              phase_times |-> phase_times,
                              bottlenecks |-> analysis.bottlenecks,
                              balanced |-> analysis.balanced,
                              insights |-> IF insights_needed THEN "generated" ELSE "placeholder",
                              last_monitored |-> now]]

\* The histories update_stage can have written by the time the monitor
\* reads the clock: up to MaxHistory entries, each with the stage the session
\* left and the time it left it, in the order of the clock
MonitorHistories ==
    UNION {{h \in [1..n -> [stage : {REQUIREMENTS, USER_STORIES, DESIGN},
                            timestamp : 0..MaxClock]] :
              \A i \in 1..(n - 1) : h[i].timestamp <= h[i + 1].timestamp}
           : n \in 0..MaxHistory}

\* monitor_workflow_progress(state.dict()) on a state with such a history, at
\* a clock value not before the last entry; the insight call, when made,
\* answers or raises
MonitorWorkflowProgress ==
    /\ Len(monitored) < MaxMonitorRuns
    /\ \E history \in MonitorHistories, now \in 0..(MaxClock + 1),
          current_stage \in {REQUIREMENTS, COMPLETE} :
       \E llm_ok \in (IF insight_call(history) THEN BOOLEAN ELSE {TRUE}) :
         LET state == [new_state("r", 0) EXCEPT !.history = history,
                                                !.current_stage = current_stage]
         IN  /\ history # <<>> => history[Len(history)].timestamp <= now
             /\ monitored' = Append(monitored,
                                    [fn |-> "monitor_workflow_progress",
                                     state |-> state, now |-> now, llm_ok |-> llm_ok,
                                     result |-> monitor_workflow_progress(state, now, llm_ok)])
    /\ UNCHANGED <<engineVars, mainVars, reg, built, app, session_state, tasks, response>>

\* the dictionaries phase_times can be: some of the stages, each with a
\* number of equal time units (a unit need not be a whole second)
PhaseTimes ==
    UNION {[keys -> 0..MaxUnits] : keys \in SUBSET {REQUIREMENTS, USER_STORIES, DESIGN}}

\* analyze_workflow_efficiency(dict(phase_times)) on such a dictionary
AnalyzeWorkflowEfficiency ==
    /\ Len(monitored) < MaxMonitorRuns
    /\ \E phase_times \in PhaseTimes, rounding \in Roundings :
         monitored' = Append(monitored,
                             [fn |-> "analyze_workflow_efficiency",
                              phase_times |-> phase_times, rounding |-> rounding,
                              result |-> analyze_workflow_efficiency(phase_times, rounding)])
    /\ UNCHANGED <<engineVars, mainVars, reg, built, app, session_state, tasks, response>>

MonitorInit == EngineIdle /\ MainIdle /\ StageIdle /\ SideIdle

MonitorNext == MonitorWorkflowProgress \/ AnalyzeWorkflowEfficiency

MonitorSpec == MonitorInit /\ [][MonitorNext]_vars

-----------------------------------------------------------------------------
(* The session operations of src/main.py: Spec *)

SessionIds == 1..Len(sessions)

\* stage_node_mapping.get(stage)
stage_node_mapping(stage) ==
    CASE stage = REQUIREMENTS -> "requirements"
      [] stage = USER_STORIES -> "user_stories"
      [] stage = DESIGN -> "design"
      [] stage = CODE -> "code"
      [] stage = SECURITY -> "security"
      [] stage = TESTING -> "test"
      [] OTHER -> "None"

\* process_requirements(requirements): the session id is a fresh uuid4. The
\* three analyzer calls come before the session is stored; the state object
\* stored at line 81 is the one the later lines update.
RequirementsCall(requirements, analyzer_ok, model_ok, gen, d) ==
    LET session_id == Len(sessions) + 1
        now == clock + d
        sdlc_graph == build_sdlc_graph(requirements)
    IN  \E state \in {[new_state(requirements, clock) EXCEPT
                          !.complexity_analysis = "default"]} :
        \E result \in {invoke(sdlc_graph, state, model_ok, gen, now)} :
        \E updated \in {IF result.raised THEN state ELSE result.state} :
        \E monitoring_result \in {monitor_workflow_progress(updated, now, TRUE)} :
        \E final \in {IF result.raised \/ monitoring_result.raised THEN updated
                      ELSE [updated EXCEPT !.monitoring = monitoring_result.monitoring]} :
            /\ sessions' = IF analyzer_ok
                           THEN Append(sessions,
                                  [state |-> final, graph |-> sdlc_graph,
                                   graph_description |->
                                       get_dynamic_graph_description(requirements)])
                           ELSE sessions
            /\ clock' = now
            /\ call' = [kind |-> "requirements", session_id |-> session_id,
                        outcome |-> IF ~analyzer_ok \/ result.raised
                                       \/ monitoring_result.raised
                                    THEN "raised" ELSE "returned",
                        cause |-> IF ~analyzer_ok THEN "analyzer"
                                  ELSE IF result.raised THEN "node"
                                  ELSE IF monitoring_result.raised THEN "monitor"
                                  ELSE "none",
                        seq |-> call.seq]

ProcessRequirements ==
    /\ Len(sessions) < MaxSessions
    /\ \E requirements \in {"", "r"}, analyzer_ok \in BOOLEAN, model_ok \in BOOLEAN,
          d \in 0..1 :
       \E gen \in (IF analyzer_ok /\ model_ok THEN Generated ELSE {"g1"}) :
         /\ clock + d <= MaxClock
         /\ RequirementsCall(requirements, analyzer_ok, model_ok, gen, d)
    /\ UNCHANGED <<engineVars, reg, sideVars, response>>

\* process_feedback(session_id, stage, approved, comments) on a stored
\* session. add_feedback, update_stage and the setattr loop act on the stored
\* state object, so what they did stays when a later line raises. The call
\* starts at the clock's value and takes d ticks.
FeedbackOnSession(session_id, stage, approved, comments, model_ok, gen, d) ==
    LET t1 == clock
        now == clock + d
        session == sessions[session_id]
        invoked == approved \/ stage_node_mapping(stage) # "None"
    IN  \E state0 \in {session.state} :
        \E state1 \in {add_feedback(state0, stage, comments, t1)} :
        \E state2 \in {IF approved
                       THEN update_stage(state1, get_next_stage(state1.current_stage), t1)
                       ELSE state1} :
        \E current_state \in
              {IF approved THEN state2
               ELSE [state1 EXCEPT !.feedback =
                        [s \in StageArgs |-> IF s = stage THEN state1.feedback[s]
                                             ELSE <<>>]]} :
        \E result \in {IF invoked
                       THEN invoke(session.graph, current_state, model_ok, gen, now)
                       ELSE [raised |-> FALSE, state |-> state2]} :
        \E state3 \in {IF result.raised THEN state2 ELSE result.state} :
        \E llm_ok \in (IF insight_call(state3.history) THEN BOOLEAN ELSE {TRUE}) :
        \E monitoring_result \in {monitor_workflow_progress(state3, now, llm_ok)} :
        \E final \in {IF result.raised \/ monitoring_result.raised THEN state3
                      ELSE [state3 EXCEPT !.monitoring = monitoring_result.monitoring]} :
            /\ sessions' = [sessions EXCEPT ![session_id].state = final]
            /\ clock' = now
            /\ call' = [kind |-> "feedback", session_id |-> session_id, stage |-> stage,
                        approved |-> approved, comments |-> comments,
                        outcome |-> IF result.raised \/ monitoring_result.raised
                                    THEN "raised" ELSE "returned",
                        cause |-> IF result.raised THEN "node"
                                  ELSE IF monitoring_result.raised THEN "monitor"
                                  ELSE "none",
                        invoked |-> invoked, from_stage |-> state0.current_stage,
                        seq |-> call.seq + 1]

FeedbackCall ==
    /\ call.seq < MaxCalls
    /\ \E session_id \in 1..MaxSessions, stage \in StageArgs, approved \in BOOLEAN,
          comments \in Comments :
         IF session_id \in SessionIds
         THEN \E model_ok \in BOOLEAN, d \in 0..1 :
              \E gen \in (IF model_ok THEN Generated ELSE {"g1"}) :
                /\ clock + d <= MaxClock
                /\ FeedbackOnSession(session_id, stage, approved, comments,
                                     model_ok, gen, d)
         ELSE \* sessions.get(session_id) is None: ValueError
              /\ call' = [kind |-> "feedback", session_id |-> session_id, stage |-> stage,
                          approved |-> approved, comments |-> comments,
                          outcome |-> "raised", cause |-> "not_found",
                          invoked |-> FALSE, from_stage |-> "None",
                          seq |-> call.seq + 1]
              /\ UNCHANGED <<sessions, clock>>
    /\ UNCHANGED <<engineVars, reg, sideVars>>

ProcessFeedback == FeedbackCall /\ UNCHANGED response

Init == EngineIdle /\ MainIdle /\ StageIdle /\ SideIdle

Next == ProcessRequirements \/ ProcessFeedback

Spec == Init /\ [][Next]_vars

-----------------------------------------------------------------------------
(* The HTTP endpoints of api.py over src/main.py: ApiSpec *)

\* what the insight call of the monitor does when it is made: it answers,
\* get_llm raises ValueError (the API key is not set), or the call fails with
\* another exception
LlmOutcomes == {"answered", "value_error", "error"}

\* the artifact names a client asks for: one that artifact_map sends to a
\* field of the state, one it sends to a key the state does not have, and one
\* it does not know
ArtifactNames == {"user_stories.md", "requirements_analysis.md", "notes.txt"}

get_session_touching(session_id, now, llm) ==
    LET state == sessions[session_id].state
        arithmetic == monitor_workflow_progress(state, now, TRUE)
    IN  IF arithmetic.raised
        THEN [exception |-> "ZeroDivisionError", state |-> state]
        ELSE IF insight_call(state.history) /\ llm = "value_error"
        THEN [exception |-> "ValueError", state |-> state]
        ELSE IF insight_call(state.history) /\ llm = "error"
        THEN [exception |-> "Exception", state |-> state]
        ELSE [exception |-> "None",
              state |-> [state EXCEPT !.monitoring = arithmetic.monitoring,
                                      !.last_updated = now]]

\* get_session(session_id) of main.py on a stored session: the exception it
\* ends with ("None" when it returns) and the state it leaves in the store
get_session(session_id, now, llm) ==
    LET state == sessions[session_id].state
        arithmetic == monitor_workflow_progress(state, now, TRUE)
    IN  IF arithmetic.raised
        THEN [exception |-> "ZeroDivisionError", state |-> state]
        ELSE IF insight_call(state.history) /\ llm = "value_error"
        THEN [exception |-> "ValueError", state |-> state]
        ELSE IF insight_call(state.history) /\ llm = "error"
        THEN [exception |-> "Exception", state |-> state]
        ELSE [exception |-> "None",
              state |-> [state EXCEPT !.monitoring = arithmetic.monitoring]]

\* the handlers of the three GET endpoints: `except ValueError` answers 404,
\* `except Exception` answers 500
status_of(exception) ==
    IF exception = "None" THEN 200
    ELSE IF exception = "ValueError" THEN 404
    ELSE 500

\* a GET endpoint that calls get_session (or get_monitoring_information,
\* which has the same body before it formats the summary) and then `lookup`
\* decides whether the rest of the handler raises
SessionRequest(endpoint, session_id, lookup_ok) ==
    IF session_id \notin SessionIds
    THEN \* sessions.get(session_id) is None: ValueError
         /\ response' = [endpoint |-> endpoint, session_id |-> session_id,
                         known |-> FALSE, status |-> status_of("ValueError"),
                         requests |-> response.requests + 1]
         /\ UNCHANGED <<sessions, clock>>
    ELSE \E d \in 0..1 :
         \E llm \in (IF insight_call(sessions[session_id].state.history)
                      THEN LlmOutcomes ELSE {"answered"}) :
         \E got \in {get_session(session_id, clock + d, llm)} :
           /\ clock + d <= MaxClock
           /\ sessions' = [sessions EXCEPT ![session_id].state = got.state]
           /\ clock' = clock + d
           /\ response' = [endpoint |-> endpoint, session_id |-> session_id,
                           known |-> TRUE,
                           status |-> IF got.exception = "None" /\ ~lookup_ok
                                      THEN status_of("Exception")
                                      ELSE status_of(got.exception),
                           requests |-> response.requests + 1]

\* GET /api/sessions/{session_id}
GetSessionEndpoint ==
    /\ response.requests < MaxRequests
    /\ \E session_id \in 1..MaxSessions : SessionRequest("get_session", session_id, TRUE)
    /\ UNCHANGED <<engineVars, call, reg, sideVars>>

\* GET /api/sessions/{session_id}/monitor
GetMonitoringEndpoint ==
    /\ response.requests < MaxRequests
    /\ \E session_id \in 1..MaxSessions : SessionRequest("get_monitoring", session_id, TRUE)
    /\ UNCHANGED <<engineVars, call, reg, sideVars>>

\* GET /api/sessions/{session_id}/artifacts/{artifact_name}: a name that
\* artifact_map sends to a field of the state is answered; for any other name
\* the handler raises (the membership test on code_artifacts, or its own
\* HTTPException(404), which `except Exception` turns into a 500)
GetArtifactEndpoint ==
    /\ response.requests < MaxRequests
    /\ \E session_id \in 1..MaxSessions, artifact_name \in ArtifactNames :
         SessionRequest("get_artifact", session_id, artifact_name = "user_stories.md")
    /\ UNCHANGED <<engineVars, call, reg, sideVars>>

\* POST /api/feedback: process_feedback runs as a background task whose
\* exceptions process_feedback_async prints; the response is the same
\* "Feedback submitted successfully" for every session id
SubmitFeedbackEndpoint ==
    /\ FeedbackCall
    /\ response' = [endpoint |-> "submit_feedback", session_id |-> call'.session_id,
                    known |-> call'.session_id \in SessionIds, status |-> 200,
                    requests |-> response.requests]

ApiInit == EngineIdle /\ MainIdle /\ StageIdle /\ SideIdle

ApiNext ==
    \/ ProcessRequirements
    \/ SubmitFeedbackEndpoint
    \/ GetSessionEndpoint
    \/ GetMonitoringEndpoint
    \/ GetArtifactEndpoint

ApiSpec == ApiInit /\ [][ApiNext]_vars

-----------------------------------------------------------------------------
(* The background tasks of api.py: TaskSpec *)

\* POST /api/feedback, as far as the response: background_tasks.add_task
\* (process_feedback_async, session_id, stage, approved, comments). Nothing
\* of the store is read.
AddFeedbackTask ==
    /\ tasks.added < MaxTasks
    /\ \E session_id \in 1..MaxSessions, stage \in StageArgs, approved \in BOOLEAN,
          comments \in Comments :
         tasks' = [tasks EXCEPT
                      !.added = @ + 1,
                      !.pending = @ \cup {[task |-> tasks.added + 1,
                                           session_id |-> session_id, stage |-> stage,
                                           approved |-> approved, comments |-> comments]}]
    /\ UNCHANGED <<engineVars, mainVars, reg, built, app, session_state, response, monitored>>

\* The event loop runs one of the added tasks: process_feedback_async awaits
\* process_feedback, whose body has no await and calls the graph with the
\* blocking invoke, so the task runs from its first line to its last before
\* the loop runs anything else. Tasks of different requests run in either
\* order. An exception is printed by process_feedback_async.
RunFeedbackTask ==
    /\ \E t \in tasks.pending :
         /\ IF t.session_id \in SessionIds
            THEN \E model_ok \in BOOLEAN, d \in 0..1 :
                 \E gen \in (IF model_ok THEN Generated ELSE {"g1"}) :
                   /\ clock + d <= MaxClock
                   /\ FeedbackOnSession(t.session_id, t.stage, t.approved, t.comments,
                                        model_ok, gen, d)
            ELSE /\ call' = [kind |-> "feedback", session_id |-> t.session_id,
                             stage |-> t.stage, approved |-> t.approved,
                             comments |-> t.comments,
                             outcome |-> "raised", cause |-> "not_found",
                             invoked |-> FALSE, from_stage |-> "None",
                             seq |-> call.seq + 1]
                 /\ UNCHANGED <<sessions, clock>>
         /\ tasks' = [tasks EXCEPT
                         !.pending = @ \ {t},
                         !.done = Append(@, t @@ [known |-> t.session_id \in SessionIds])]
    /\ UNCHANGED <<engineVars, reg, built, app, session_state, response, monitored>>

TaskInit == EngineIdle /\ MainIdle /\ StageIdle /\ SideIdle

TaskNext ==
    \/ ProcessRequirements
    \/ AddFeedbackTask
    \/ RunFeedbackTask

TaskSpec == TaskInit /\ [][TaskNext]_vars

-----------------------------------------------------------------------------
(* A requirements submission over HTTP and the ids of its session: SubmitSpec *)

\* str(uuid.uuid4()): the key process_requirements stores the n-th session under
uuid4(n) == <<"uuid4", n>>

\* f"session_{datetime.now().strftime('%Y%m%d%H%M%S')}": the id in the response
temporary_session_id(now) == <<"session", now>>

\* sessions.get(session_id) for an id as clients write it: the stored
\* session's index, or 0 for None
sessions_get(session_id) ==
    IF \E k \in SessionIds : uuid4(k) = session_id
    THEN CHOOSE k \in SessionIds : uuid4(k) = session_id
    ELSE 0

\* the ids a client can present: those of responses and those of the store
ClientIds ==
    {t.returned : t \in tasks.pending} \cup {tasks.done[i].returned : i \in 1..Len(tasks.done)}
        \cup {uuid4(k) : k \in 1..MaxPosts}

\* POST /api/requirements: add_task(process_requirements_async, requirements),
\* then the response with the temporary id
SubmitRequirementsEndpoint ==
    /\ tasks.added < MaxPosts
    /\ \E requirements \in {"", "r"} :
         /\ tasks' = [tasks EXCEPT
                         !.added = @ + 1,
                         !.pending = @ \cup {[task |-> tasks.added + 1,
                                              requirements |-> requirements,
                                              returned |-> temporary_session_id(clock)]}]
         /\ response' = [endpoint |-> "submit_requirements",
                         session_id |-> temporary_session_id(clock),
                         known |-> FALSE, status |-> 200,
                         requests |-> response.requests]
    /\ UNCHANGED <<engineVars, mainVars, reg, built, app, session_state, monitored>>

\* the event loop runs process_requirements_async(requirements), which
\* awaits process_requirements(requirements) with no session id and prints
\* its exception
RunRequirementsTask ==
    /\ \E t \in tasks.pending :
         /\ \E analyzer_ok \in BOOLEAN, model_ok \in BOOLEAN, d \in 0..1 :
            \E gen \in (IF analyzer_ok /\ model_ok THEN Generated ELSE {"g1"}) :
              /\ clock + d <= MaxClock
              /\ RequirementsCall(t.requirements, analyzer_ok, model_ok, gen, d)
         /\ tasks' = [tasks EXCEPT
                         !.pending = @ \ {t},
                         !.done = Append(@, t @@ [key |-> uuid4(Len(sessions) + 1),
                                                  stored |-> Len(sessions') > Len(sessions)])]
    /\ UNCHANGED <<engineVars, reg, built, app, session_state, response, monitored>>

\* GET /api/sessions/{session_id} with an id the client holds
GetSessionById ==
    /\ response.requests < MaxRequests
    /\ \E session_id \in ClientIds :
       \E k \in {sessions_get(session_id)} :
         IF k \notin SessionIds
         THEN /\ response' = [endpoint |-> "get_session", session_id |-> session_id,
                              known |-> FALSE, status |-> status_of("ValueError"),
                              requests |-> response.requests + 1]
              /\ UNCHANGED <<sessions, clock>>
         ELSE \E d \in 0..1 :
              \E llm \in (IF insight_call(sessions[k].state.history)
                           THEN LlmOutcomes ELSE {"answered"}) :
              \E got \in {get_session(k, clock + d, llm)} :
                /\ clock + d <= MaxClock
                /\ sessions' = [sessions EXCEPT ![k].state = got.state]
                /\ clock' = clock + d
                /\ response' = [endpoint |-> "get_session", session_id |-> session_id,
                                known |-> TRUE, status |-> status_of(got.exception),
                                requests |-> response.requests + 1]
    /\ UNCHANGED <<engineVars, call, reg, sideVars>>

\* POST /api/feedback with an id the client holds, its task run at once
SubmitFeedbackById ==
    /\ call.seq < MaxFeedbacks
    /\ \E session_id \in ClientIds, stage \in StageArgs, approved \in BOOLEAN,
          comments \in Comments :
       \E k \in {sessions_get(session_id)} :
         /\ IF k \in SessionIds
            THEN \E model_ok \in BOOLEAN, d \in 0..1 :
                 \E gen \in (IF model_ok THEN Generated ELSE {"g1"}) :
                   /\ clock + d <= MaxClock
                   /\ FeedbackOnSession(k, stage, approved, comments, model_ok, gen, d)
            ELSE /\ call' = [kind |-> "feedback", session_id |-> k, stage |-> stage,
                             approved |-> approved, comments |-> comments,
                             outcome |-> "raised", cause |-> "not_found",
                             invoked |-> FALSE, from_stage |-> "None",
                             seq |-> call.seq + 1]
                 /\ UNCHANGED <<sessions, clock>>
         /\ response' = [endpoint |-> "submit_feedback", session_id |-> session_id,
                         known |-> k \in SessionIds, status |-> 200,
                         requests |-> response.requests]
    /\ UNCHANGED <<engineVars, reg, sideVars>>

SubmitInit == EngineIdle /\ MainIdle /\ StageIdle /\ SideIdle

SubmitNext ==
    \/ SubmitRequirementsEndpoint
    \/ RunRequirementsTask
    \/ GetSessionById
    \/ SubmitFeedbackById

SubmitSpec == SubmitInit /\ [][SubmitNext]_vars

-----------------------------------------------------------------------------
(* The stage registry as pure functions: StageSpec *)

\* current_stage is a plain str field: the seven stage names, and names that
\* are not stages (a conditional node's name, a lower-case name, the empty string)
StageInputs == SDLCStage \cup {"architecture_review", "requirements", ""}

\* state.get_next_stage() on a state whose current_stage is the last result
QueryNextStage ==
    /\ Len(reg) < MaxTrace
    /\ LET cur == IF reg = <<>> THEN REQUIREMENTS ELSE reg[Len(reg)].out
       IN  \E s \in (IF reg = <<>> THEN StageInputs ELSE {cur}) :
             reg' = Append(reg, [fn |-> "get_next_stage", in |-> s,
                                 out |-> get_next_stage(s)])
    /\ UNCHANGED <<engineVars, mainVars, sideVars, response>>

\* advance_stage(session_id, current_stage) on the last result
QueryAdvanceStage ==
    /\ Len(reg) < MaxTrace
    /\ LET cur == IF reg = <<>> THEN REQUIREMENTS ELSE reg[Len(reg)].out
       IN  \E s \in (IF reg = <<>> THEN StageInputs ELSE {cur}) :
             reg' = Append(reg, [fn |-> "advance_stage", in |-> s,
                                 out |-> advance_stage(s)])
    /\ UNCHANGED <<engineVars, mainVars, sideVars, response>>

StageInit == EngineIdle /\ MainIdle /\ StageIdle /\ SideIdle

StageNext == QueryNextStage \/ QueryAdvanceStage

StageSpec == StageInit /\ [][StageNext]_vars

-----------------------------------------------------------------------------
(* The two graph builders as functions of their inputs: GraphSpec *)

\* every record analyze_project_complexity is asked to return
Classifications ==
    [complexity : {"low", "medium", "high"}, security_critical : BOOLEAN,
     performance_critical : BOOLEAN, data_intensive : BOOLEAN,
     user_interface_focused : BOOLEAN, integration_heavy : BOOLEAN]

\* what llm.invoke(prompt) returns to the classification prompt: text that is
\* no JSON, and two JSON objects that differ from default_analysis
Responses == {"unparseable", "json_high_not_security", "json_low_security"}

\* the states a decision function of create_sdlc_graph can be called on: the
\* node wrappers have set current_operation before any edge is evaluated
DecisionStates ==
    [current_stage : SDLCStage, current_operation : Operations, error : BOOLEAN,
     retries : {[o \in Operations |-> r] : r \in 0..RetryLimit},
     history : {<<>>}, feedback : [FeedbackStages -> FeedbackFlags]]

\* the nodes an edge out of n can lead to
targets_of(graph, n) == {e[2] : e \in {d \in graph.edge_set : d[1] = n}}

\* create_sdlc_graph: six nodes, the entry point, and a conditional edge out of
\* every node; targets holds what each decision function can return
engine_graph ==
    [nodes |-> Operations \cup {"error_handler"},
     edge_set |-> {},
     conditional |-> Operations \cup {"error_handler"},
     entry_points |-> {"analyze_requirements"},
     targets |-> [n \in Operations \cup {"error_handler"} |->
                    IF n = "error_handler"
                    THEN {next_after_error_handler(s) : s \in DecisionStates}
                    ELSE {edge_of(n, s) : s \in DecisionStates}]]

\* lines 79-119 of build_sdlc_graph on a given analysis
BuildFromAnalysis ==
    /\ Len(built) < MaxBuilds
    /\ \E analysis \in Classifications :
         LET graph == graph_of(analysis)
         IN  built' = Append(built,
                 [fn |-> "graph_of", raised |-> FALSE, analysis |-> analysis,
                  response |-> "none", graph |-> graph,
                  targets |-> [n \in graph.nodes |-> targets_of(graph, n)]])
    /\ UNCHANGED <<engineVars, mainVars, reg, app, response, session_state, tasks, monitored>>

\* build_sdlc_graph(requirements): the classification call raises, or returns
\* a response that analyze_project_complexity does not read
BuildSdlcGraph ==
    /\ Len(built) < MaxBuilds
    /\ \E requirements \in {"", "r"}, llm_ok \in BOOLEAN :
       \E llm_response \in (IF llm_ok THEN Responses ELSE {"none"}) :
         LET graph == build_sdlc_graph(requirements)
         IN  built' = Append(built,
                 IF llm_ok
                 THEN [fn |-> "build_sdlc_graph", raised |-> FALSE,
                       requirements |-> requirements,
                       analysis |-> analyze_project_complexity(requirements),
                       response |-> llm_response, graph |-> graph,
                       targets |-> [n \in graph.nodes |-> targets_of(graph, n)]]
                 ELSE [fn |-> "build_sdlc_graph", raised |-> TRUE,
                       requirements |-> requirements,
                       response |-> llm_response])
    /\ UNCHANGED <<engineVars, mainVars, reg, app, response, session_state, tasks, monitored>>

\* create_sdlc_graph(llm, vectorstore)
CreateSdlcGraph ==
    /\ Len(built) < MaxBuilds
    /\ built' = Append(built,
           [fn |-> "create_sdlc_graph", raised |-> FALSE, response |-> "none",
            graph |-> engine_graph, targets |-> engine_graph.targets])
    /\ UNCHANGED <<engineVars, mainVars, reg, app, response, session_state, tasks, monitored>>

GraphInit == EngineIdle /\ MainIdle /\ StageIdle /\ SideIdle

GraphNext == BuildFromAnalysis \/ BuildSdlcGraph \/ CreateSdlcGraph

GraphSpec == GraphInit /\ [][GraphNext]_vars

-----------------------------------------------------------------------------
(* A session on the graph of a given classification, node by node: ClassifiedSpec *)

\* a graph run of the session is under way
Running == call.kind # "none" /\ call.outcome = "running"

\* process_requirements from the classification the analyzer hands it: the
\* state (main.py 65-69), the graph (72) and the description (75) are made,
\* the session is stored (81-85) and the graph run starts (88)
CreateClassifiedSession ==
    /\ sessions = <<>>
    /\ \E analysis \in Classifications :
       \E state \in {[new_state("r", clock) EXCEPT
                         !.feedback = [s \in SDLCStage |-> <<>>],
                         !.complexity_analysis = analysis]} :
         /\ sessions' = <<[state |-> state, graph |-> graph_of(analysis),
                           graph_description |-> graph_description_of(analysis)]>>
         /\ node' = graph_of(analysis).entry
         /\ gstate' = state
    /\ call' = [kind |-> "requirements", seq |-> 0, outcome |-> "running"]
    /\ UNCHANGED <<execs, everOk, failures, clock, reg, sideVars, response>>

\* the run executes its next node: the node's model call raises and the
\* exception leaves invoke, or the node's result is merged into the run's
\* state and the edge out of the node is followed
RunGraphNode ==
    /\ Running
    /\ node # END
    /\ \E model_ok \in BOOLEAN :
         IF ~model_ok /\ calls_model(node, gstate)
         THEN /\ call' = [call EXCEPT !.outcome = "raised"]
              /\ node' = END
              /\ UNCHANGED gstate
         ELSE /\ gstate' = node_function(node, gstate, "g1", clock)
              /\ node' = sessions[1].graph.edges[node]
              /\ UNCHANGED call
    /\ UNCHANGED <<execs, everOk, failures, sessions, clock, reg, sideVars, response>>

\* invoke returns: the setattr loop copies the result onto the stored state,
\* then the monitor runs (main.py 94-104, 142-145, 172-176)
FinishRun ==
    /\ Running
    /\ node = END
    /\ \E monitoring_result \in {monitor_workflow_progress(gstate, clock, TRUE)} :
         /\ sessions' = [sessions EXCEPT ![1].state =
                            IF monitoring_result.raised THEN gstate
                            ELSE [gstate EXCEPT !.monitoring = monitoring_result.monitoring]]
         /\ call' = [call EXCEPT !.outcome = IF monitoring_result.raised
                                             THEN "raised" ELSE "returned"]
    /\ UNCHANGED <<engineVars, clock, reg, sideVars, response>>

\* process_feedback(session_id, stage, True, "") naming the stage the session
\* is on: add_feedback, update_stage(get_next_stage()), and the graph run
\* starts on state.dict() (main.py 131-140)
ApproveCurrentStage ==
    /\ call.kind # "none"
    /\ ~Running
    /\ call.seq < MaxApprovals
    /\ \E state1 \in {add_feedback(sessions[1].state, sessions[1].state.current_stage,
                                   "", clock)} :
       \E state2 \in {update_stage(state1, get_next_stage(state1.current_stage), clock)} :
         /\ sessions' = [sessions EXCEPT ![1].state = state2]
         /\ node' = sessions[1].graph.entry
         /\ gstate' = state2
    /\ call' = [kind |-> "feedback", seq |-> call.seq + 1, outcome |-> "running"]
    /\ UNCHANGED <<execs, everOk, failures, clock, reg, sideVars, response>>

ClassifiedInit == EngineIdle /\ MainIdle /\ StageIdle /\ SideIdle

ClassifiedNext ==
    \/ CreateClassifiedSession
    \/ RunGraphNode
    \/ FinishRun
    \/ ApproveCurrentStage

ClassifiedSpec == ClassifiedInit /\ [][ClassifiedNext]_vars

-----------------------------------------------------------------------------
(* The Streamlit front end of app.py over src/utils/llm_generator.py: AppSpec *)

\* A text is the sequence of its lines; the empty text has no line.
Blank(line) == line \in {"", " "}

\* str.strip(), on lines: blank lines at either end are dropped
RECURSIVE strip(_)
strip(text) ==
    IF text = <<>> THEN <<>>
    ELSE IF Blank(Head(text)) THEN strip(Tail(text))
    ELSE IF Blank(text[Len(text)]) THEN strip(SubSeq(text, 1, Len(text) - 1))
    ELSE text

\* str.split('\n'): the lines, and one empty line for the empty text
split_lines(text) == IF text = <<>> THEN <<"">> ELSE text

\* the comments a reviewer types: empty, blank, one line, two lines, and a
\* line followed by a blank one
AppComments == {<<>>, <<" ">>, <<"a">>, <<"a", "b">>, <<"a", " ">>}

\* what one attempt of llm.invoke does: it answers, it fails with a 503
\* "Service Unavailable", or it fails otherwise
AttemptOutcomes == {"answered", "unavailable", "error"}

max_retries == 3

\* generate_content: the retry loop. An attempt that answers returns
\* the model's answer; a 503 is retried while attempts remain; the third
\* failure returns the "Service Currently Unavailable" text and any other
\* failure leaves the loop for the "Error Generating Content" text. No
\* exception leaves the function. calls counts the llm.invoke attempts made.
RECURSIVE generate_content_retry_any(_, _, _)
generate_content_retry_any(answer, outcomes, retry_count) ==
    IF retry_count >= max_retries
    THEN [answered |-> FALSE, calls |-> retry_count,
          content |-> <<"# Error Generating Content">>]
    ELSE IF outcomes[retry_count + 1] = "answered"
    THEN [answered |-> TRUE, calls |-> retry_count + 1, content |-> answer]
    ELSE IF retry_count + 1 < max_retries
    THEN generate_content_retry_any(answer, outcomes, retry_count + 1)
    ELSE [answered |-> FALSE, calls |-> retry_count + 1,
          content |-> <<"# Service Currently Unavailable">>]

RECURSIVE generate_content(_, _, _)
generate_content(answer, outcomes, retry_count) ==
    IF retry_count >= max_retries
    THEN [answered |-> FALSE, calls |-> retry_count,
          content |-> <<"# Error Generating Content">>]
    ELSE IF outcomes[retry_count + 1] = "answered"
    THEN [answered |-> TRUE, calls |-> retry_count + 1, content |-> answer]
    ELSE IF outcomes[retry_count + 1] = "unavailable" /\ retry_count + 1 < max_retries
    THEN generate_content(answer, outcomes, retry_count + 1)
    ELSE IF retry_count + 1 >= max_retries
    THEN [answered |-> FALSE, calls |-> retry_count + 1,
          content |-> <<"# Service Currently Unavailable">>]
    ELSE [answered |-> FALSE, calls |-> retry_count + 1,
          content |-> <<"# Error Generating Content">>]

\* what the model may answer to the feedback prompt: the original followed by
\* the section the prompt asks for, or a text rewritten from scratch
revision(original_content, llm_text) ==
    IF llm_text = "extends"
    THEN original_content \o <<"## Changes Made Based on Feedback">>
    ELSE <<"rewritten">>

\* process_feedback of llm_generator.py
process_feedback(original_content, feedback, llm_text, outcomes) ==
    generate_content(revision(original_content, llm_text), outcomes, 0)

\* the fallback of process_feedback_content
applied_feedback(original_content, feedback) ==
    LET feedback_lines == split_lines(strip(feedback))
    IN  original_content \o <<"", "## Applied Feedback">>
            \o [i \in 1..Len(feedback_lines) |-> "* " \o feedback_lines[i]]

\* process_feedback_content: the fallback runs only when the try block
\* raises, which generate_content never does; the import of
\* src.utils.llm_generator can (import_ok = FALSE)
process_feedback_content(original_content, feedback, import_ok, llm_text, outcomes) ==
    IF import_ok
    THEN process_feedback(original_content, feedback, llm_text, outcomes).content
    ELSE applied_feedback(original_content, feedback)

\* the artifacts of the session state; code_artifacts is the content of the
\* one generated file, and the empty text while the dictionary is empty
AppFields == {"user_stories", "functional_design", "non_functional_design",
              "code_artifacts", "security_findings", "test_cases", "test_results"}

\* the state fields submit_feedback rewrites for a stage
revised_fields(stage) ==
    CASE stage = USER_STORIES -> {"user_stories"}
      [] stage = DESIGN -> {"functional_design", "non_functional_design"}
      [] stage = CODE -> {"code_artifacts"}
      [] stage = SECURITY -> {"security_findings"}
      [] stage = TESTING -> {"test_cases"}
      [] OTHER -> {}

\* the fields advance_stage generates on leaving a stage
generated_fields(stage) ==
    CASE stage = USER_STORIES -> {"functional_design", "non_functional_design"}
      [] stage = DESIGN -> {"code_artifacts"}
      [] stage = CODE -> {"security_findings"}
      [] stage = SECURITY -> {"test_cases", "test_results"}
      [] OTHER -> {}

\* create_new_session: stage USER_STORIES, user stories generated, every
\* other artifact empty
AppCreateSession ==
    /\ ~app.created
    /\ \E requirements \in {<<>>, <<"r">>} :
         app' = [created |-> TRUE, calls |-> 0,
                 state |-> [f \in AppFields |->
                              IF f = "user_stories" THEN <<"generated user_stories">>
                              ELSE <<>>]
                           @@ [current_stage |-> USER_STORIES,
                               requirements |-> requirements],
                 feedback |-> [s \in SDLCStage |-> [given |-> FALSE]],
                 last |-> [kind |-> "create"]]
    /\ UNCHANGED <<engineVars, mainVars, reg, built, response, session_state, tasks, monitored>>

\* submit_feedback(stage, approved, comments): the feedback of the current
\* stage is overwritten, a rejection with non-blank comments rewrites the
\* stage's artifacts through process_feedback_content, an approval advances
\* the stage and generates the next stage's artifacts
AppSubmitFeedback ==
    /\ app.created
    /\ app.calls < MaxAppCalls
    /\ \E approved \in BOOLEAN, comments \in AppComments :
       \E revise \in {~approved /\ strip(comments) # <<>>
                        /\ revised_fields(app.state.current_stage) # {}} :
       \E import_ok \in (IF revise THEN BOOLEAN ELSE {TRUE}) :
       \E llm_text \in (IF revise /\ import_ok THEN {"extends", "rewrites"} ELSE {"extends"}),
          outcomes \in (IF revise /\ import_ok THEN [1..MaxAttempts -> AttemptOutcomes]
                        ELSE {[i \in 1..MaxAttempts |-> "answered"]}) :
         LET current_stage == app.state.current_stage
             state1 == [f \in DOMAIN app.state |->
                          IF /\ revise
                             /\ f \in revised_fields(current_stage)
                             /\ ~(f = "code_artifacts" /\ app.state[f] = <<>>)
                          THEN process_feedback_content(app.state[f], comments,
                                                        import_ok, llm_text, outcomes)
                          ELSE app.state[f]]
             state2 == IF approved
                       THEN [f \in DOMAIN state1 |->
                               IF f = "current_stage" THEN advance_stage(current_stage)
                               ELSE IF f \in generated_fields(current_stage)
                               THEN <<"generated " \o f>>
                               ELSE state1[f]]
                       ELSE state1
         IN  app' = [app EXCEPT
                 !.calls = @ + 1,
                 !.state = state2,
                 !.feedback[current_stage] =
                     [given |-> TRUE, approved |-> approved, comments |-> comments],
                 !.last = [kind |-> "feedback", stage |-> current_stage,
                           approved |-> approved, comments |-> comments,
                           revised |-> revise,
                           external |-> IF ~revise THEN "not_called"
                                        ELSE IF ~import_ok THEN "not_imported"
                                        ELSE IF process_feedback(<<>>, comments, llm_text,
                                                                 outcomes).answered
                                        THEN "answered" ELSE "failed",
                           generated |-> process_feedback(<<>>, comments, llm_text,
                                                          outcomes),
                           attempts |-> SubSeq(outcomes, 1,
                                               process_feedback(<<>>, comments, llm_text,
                                                                outcomes).calls)]]
    /\ UNCHANGED <<engineVars, mainVars, reg, built, response, session_state, tasks, monitored>>

AppInit == EngineIdle /\ MainIdle /\ StageIdle /\ SideIdle

AppNext == AppCreateSession \/ AppSubmitFeedback

AppSpec == AppInit /\ [][AppNext]_vars

-----------------------------------------------------------------------------
(* The session store of app.py: StoreSpec *)

\* generate_session_id(): "session_" and datetime.now() formatted as
\* %Y%m%d%H%M%S, which drops what is below the second; the clock ticks in
\* half seconds
generate_session_id(now) == <<"session", now \div 2>>

\* the entry create_new_session writes for the requirements; the user stories
\* come from the generative model or from the fallback text
create_new_session(requirements, user_stories, now) ==
    [state |-> [f \in AppFields |-> IF f = "user_stories" THEN user_stories ELSE <<>>]
               @@ [current_stage |-> USER_STORIES, requirements |-> requirements],
     created_at |-> now,
     last_updated |-> now]

\* submit_requirements() of app.py: create_new_session stores the entry under
\* the generated id, then the id and the stage become the current ones. The
\* id is generated first; generating the user stories takes d ticks.
\* submission numbers the call (observer).
SubmitRequirements ==
    /\ session_state.submissions < MaxSubmissions
    /\ \E requirements \in {<<>>, <<"r">>},
          user_stories \in {<<"generated user_stories">>, <<"# User Stories">>},
          d \in 0..1 :
         LET session_id == generate_session_id(clock)
             entry == create_new_session(requirements, user_stories, clock + d)
                      @@ [submission |-> session_state.submissions + 1]
         IN  /\ clock + d <= MaxClock
             /\ clock' = clock + d
             /\ session_state' =
                    [sessions |-> (session_id :> entry) @@ session_state.sessions,
                     session_id |-> session_id,
                     current_stage |-> entry.state.current_stage,
                     submissions |-> session_state.submissions + 1]
    /\ UNCHANGED <<engineVars, sessions, call, reg, built, app, response, tasks, monitored>>

\* the next tick of the clock
Tick ==
    /\ clock < MaxClock
    /\ clock' = clock + 1
    /\ UNCHANGED <<engineVars, sessions, call, reg, sideVars, response>>

StoreInit == EngineIdle /\ MainIdle /\ StageIdle /\ SideIdle

StoreNext == SubmitRequirements \/ Tick

StoreSpec == StoreInit /\ [][StoreNext]_vars

-----------------------------------------------------------------------------
(* Claims about the engine (EngineSpec, EngineFairSpec) *)

\* the history records of type "error" written for one operation
ErrorRecords(history, operation) ==
    SelectSeq(history, LAMBDA r : r.type = "error" /\ r.operation = operation)

\* C1: an operation whose body has failed on every attempt is sent back to
\* itself by error_handler until its body has run 4 times (1 + RetryLimit);
\* the step of error_handler that then leaves it through the routing by
\* current_stage finds exactly 4 executions and leaves history with exactly
\* one error record for that operation, carrying retries = 3.
C1_RetryCeiling ==
    [][ LET op == gstate.current_operation
        IN  (/\ node = "error_handler"
             /\ op \in Operations
             /\ op \notin everOk
             /\ ErrorRecords(gstate.history, op) = <<>>)
            => IF execs[op] < RetryLimit + 1
               THEN /\ node' = op
                    /\ gstate'.history = gstate.history
               ELSE /\ execs[op] = RetryLimit + 1
                    /\ node' \in {"generate_user_stories", "generate_design_documents", END}
                    /\ ErrorRecords(gstate'.history, op) =
                           << [type |-> "error", operation |-> op, retries |-> RetryLimit] >>
      ]_vars

\* C1 witness: an operation that never succeeded has been left through the
\* fallback after 4 executions, with its single error record in history.
C1_Witness ==
    \E op \in Operations :
        /\ op \notin everOk
        /\ execs[op] = RetryLimit + 1
        /\ gstate.current_operation = op
        /\ node # "error_handler"
        /\ ~gstate.error
        /\ Len(ErrorRecords(gstate.history, op)) = 1

\* C2: every run of the engine eventually reaches End.
C2_EventuallyEnd == <>(node = END)

\* C3: every retry count stays within 0..3, no step lowers a retry count, and
\* a step changes at most the count of the operation whose node it executes.
C3_RetryCounts ==
    /\ [](\A o \in Operations : gstate.retries[o] \in 0..RetryLimit)
    /\ [][\A o \in Operations :
            /\ gstate'.retries[o] >= gstate.retries[o]
            /\ (o # node => gstate'.retries[o] = gstate.retries[o])]_vars

\* C3 witness: one operation has used all its retries and another has been
\* retried as well, each count having moved on its own.
C3_Witness ==
    \E a, b \in Operations :
        /\ a # b
        /\ gstate.retries[a] = RetryLimit
        /\ gstate.retries[b] \in 1..(RetryLimit - 1)

\* the node the graph holds for a stage, End when it holds none
NodeOfStage(stage) ==
    CASE stage = REQUIREMENTS -> "analyze_requirements"
      [] stage = USER_STORIES -> "generate_user_stories"
      [] stage = DESIGN -> "generate_design_documents"
      [] OTHER -> END

\* the stage an operation of the graph works on
StageOfNode(operation) ==
    CASE operation = "analyze_requirements" -> REQUIREMENTS
      [] operation \in {"generate_user_stories", "process_user_stories_feedback"} -> USER_STORIES
      [] operation \in {"generate_design_documents", "process_design_feedback"} -> DESIGN

FeedbackNodes == {"process_user_stories_feedback", "process_design_feedback"}

\* the node that follows a stage's nodes when the run advances
SuccessorOf(operation) == NodeOfStage(get_next_stage(StageOfNode(operation)))

\* the step executes the body of a node and the body raises / returns
BodyFails == node \in Operations /\ failures' = failures + 1
BodyReturns == node \in Operations /\ execs' # execs /\ failures' = failures

\* C28: a node execution whose body raises leaves error set and
\* current_operation naming that node, and is followed by error_handler
\* whatever feedback the state carries; error_handler finding fewer than 3
\* retries of current_operation sends the run back to current_operation, and
\* between that and the body that runs next the count of current_operation
\* grows by exactly one, no other count changes, and error is cleared (the
\* body runs on a cleared error: error is set afterwards only if it raised).
C28_FailureRoutesToRetry ==
    [][ /\ BodyFails
            => /\ gstate'.error
               /\ gstate'.current_operation = node
               /\ node' = "error_handler"
        /\ (/\ node = "error_handler"
            /\ retries_of(gstate, gstate.current_operation) < RetryLimit)
            => /\ node' = gstate.current_operation
               /\ gstate'.retries = gstate.retries
        /\ (node \in Operations /\ gstate.error)
            => /\ node = gstate.current_operation
               /\ gstate'.retries =
                      [gstate.retries EXCEPT ![node] = @ + 1]
               /\ gstate'.error <=> BodyFails
      ]_vars

\* C28 witness: generate_user_stories failed while the state carried rejecting
\* feedback for its stage, was retried once and then returned.
C28_Witness ==
    /\ gstate.feedback[USER_STORIES] = "rejected"
    /\ gstate.current_operation = "generate_user_stories"
    /\ gstate.retries["generate_user_stories"] = 1
    /\ "generate_user_stories" \in everOk
    /\ ~gstate.error
    /\ node = "process_user_stories_feedback"

\* C29: error_handler running with 3 or more retries of current_operation
\* appends one error record to history, clears error, and hands over to the
\* node of the stage that follows current_stage in the stage order, End when
\* the graph holds no node for that stage.
C29_ExhaustedRoutesByStage ==
    [][ LET op == gstate.current_operation
        IN  (/\ node = "error_handler"
             /\ retries_of(gstate, op) >= RetryLimit)
            => /\ gstate'.history =
                      Append(gstate.history,
                             [type |-> "error", operation |-> op,
                              retries |-> retries_of(gstate, op)])
               /\ ~gstate'.error
               /\ node' = NodeOfStage(get_next_stage(gstate.current_stage))
      ]_vars

\* C29 witness: generate_user_stories has used its retries on USER_STORIES and
\* error_handler has handed over to generate_design_documents.
C29_Witness ==
    /\ gstate.current_operation = "generate_user_stories"
    /\ gstate.current_stage = USER_STORIES
    /\ gstate.retries["generate_user_stories"] = RetryLimit
    /\ Len(ErrorRecords(gstate.history, "generate_user_stories")) = 1
    /\ ~gstate.error
    /\ node = "generate_design_documents"

\* C30: after a node's body returns, the next node is a feedback-processing
\* node of that node's stage exactly when the state carries feedback for that
\* stage whose approved flag is false; otherwise it is the node's successor.
C30_FeedbackDecidesNextNode ==
    [][ BodyReturns
        => IF gstate.feedback[StageOfNode(node)] = "rejected"
           THEN /\ node' \in FeedbackNodes
                /\ StageOfNode(node') = StageOfNode(node)
           ELSE node' = SuccessorOf(node)
      ]_vars

-----------------------------------------------------------------------------
(* Claims about the stage registry (StageSpec) *)

\* the fixed order Requirements, UserStories, Design, Code, Security, Testing,
\* Complete, written as the successor table the claim states
FixedSuccessor(s) ==
    CASE s = REQUIREMENTS -> USER_STORIES
      [] s = USER_STORIES -> DESIGN
      [] s = DESIGN -> CODE
      [] s = CODE -> SECURITY
      [] s = SECURITY -> TESTING
      [] s = TESTING -> COMPLETE

Queries == {reg[i] : i \in 1..Len(reg)}

\* C9: for every stage S other than Complete the next stage is the fixed
\* successor of S, and the next stage of Complete is Complete (get_next_stage
\* and advance_stage alike).
C9_StageOrder ==
    \A q \in Queries :
        /\ (q.in \in SDLCStage \ {COMPLETE} => q.out = FixedSuccessor(q.in))
        /\ (q.in = COMPLETE => q.out = COMPLETE)

\* C9 witness: the registry has been asked for the successor of Testing and
\* then for the successor of Complete.
C9_Witness ==
    \E i \in 1..Len(reg) :
        /\ i > 1
        /\ reg[i].fn = "get_next_stage"
        /\ reg[i].in = COMPLETE
        /\ reg[i-1].fn = "get_next_stage"
        /\ reg[i-1].in = TESTING

\* C10 (as stated): get_next_stage on a current stage that is not one of the
\* seven stages returns Complete.
C10_UnknownGivesComplete ==
    \A q \in Queries :
        (q.fn = "get_next_stage" /\ q.in \notin SDLCStage) => q.out = COMPLETE

\* C10 (amended): get_next_stage on a current stage that is not one of the
\* seven stages returns Requirements, and always returns one of the seven stages.
C10_UnknownGivesRequirements ==
    \A q \in Queries :
        q.fn = "get_next_stage" =>
            /\ q.out \in SDLCStage
            /\ (q.in \notin SDLCStage => q.out = REQUIREMENTS)

\* C10 witness: get_next_stage has been applied to a name that is no stage.
C10_Witness ==
    \E q \in Queries : q.fn = "get_next_stage" /\ q.in = "architecture_review"

-----------------------------------------------------------------------------
(* Claims about the session operations (Spec) *)

\* a step that is a process_feedback call on a stored session
FeedbackStep ==
    /\ call'.kind = "feedback"
    /\ call'.seq = call.seq + 1
    /\ call'.session_id \in SessionIds

PreState == sessions[call'.session_id].state
PostState == sessions'[call'.session_id].state

ArtifactFields == {"user_stories", "functional_design", "non_functional_design",
                   "code_artifacts", "security_findings", "test_cases", "test_results"}

\* the artifact fields a stage's node produces
ArtifactsOf(stage) ==
    CASE stage = USER_STORIES -> {"user_stories"}
      [] stage = DESIGN -> {"functional_design", "non_functional_design"}
      [] stage = CODE -> {"code_artifacts"}
      [] stage = SECURITY -> {"security_findings"}
      [] stage = TESTING -> {"test_cases", "test_results"}
      [] OTHER -> {}

IsPrefix(s, u) == Len(s) <= Len(u) /\ \A i \in 1..Len(s) : s[i] = u[i]

\* C4: no failure of a stage function escapes the engine: a call of
\* process_requirements or process_feedback never ends with the exception of
\* a node body of its graph run.
C4_NoNodeFailureEscapes ==
    call.kind \in {"requirements", "feedback"} =>
        ~(call.outcome = "raised" /\ call.cause = "node")

\* C5: a feedback submission with approved = true that returns leaves
\* current_stage at the next stage of the stage the session was on, and
\* history exactly one entry longer.
C5_ApprovalAdvancesOneStage ==
    [][(FeedbackStep /\ call'.approved /\ call'.outcome = "returned")
        => /\ PostState.current_stage = get_next_stage(PreState.current_stage)
           /\ Len(PostState.history) = Len(PreState.history) + 1]_vars

\* C6: a feedback submission with approved = false and non-empty comments for
\* the stage S the session is on returns with current_stage = S and history
\* unchanged, and changes no artifact other than those of stage S.
C6_RejectionStaysOnStage ==
    [][(/\ FeedbackStep
        /\ ~call'.approved
        /\ call'.comments # ""
        /\ call'.outcome = "returned"
        /\ call'.stage = PreState.current_stage)
        => /\ PostState.current_stage = PreState.current_stage
           /\ PostState.history = PreState.history
           /\ PostState.requirements = PreState.requirements
           /\ \A f \in ArtifactFields \ ArtifactsOf(call'.stage) :
                  PostState[f] = PreState[f]]_vars

\* C7: a feedback submission with approved = false and empty comments runs no
\* stage node and leaves current_stage, history and every artifact as they were.
C7_EmptyRejectionChangesNothing ==
    [][(FeedbackStep /\ ~call'.approved /\ call'.comments = "")
        => /\ ~call'.invoked
           /\ PostState.current_stage = PreState.current_stage
           /\ PostState.history = PreState.history
           /\ \A f \in ArtifactFields : PostState[f] = PreState[f]]_vars

\* C8: every feedback submission on a stored session makes the feedback list
\* of the given stage one element longer, the comments last, and keeps every
\* earlier entry of every stage.
C8_FeedbackAppendedAndKept ==
    [][FeedbackStep
        => /\ PostState.feedback[call'.stage] =
                  Append(PreState.feedback[call'.stage], call'.comments)
           /\ \A s \in StageArgs :
                  IsPrefix(PreState.feedback[s], PostState.feedback[s])]_vars

\* a step that is a process_requirements call that stores a session
RequirementsStep ==
    /\ call'.kind = "requirements"
    /\ Len(sessions') = Len(sessions) + 1

NewState == sessions'[Len(sessions')].state

\* C16: after a requirements submission the session is on UserStories;
\* approving UserStories with empty comments then moves it to Design with
\* history length 2; rejecting Design with a comment then keeps Design, makes
\* feedback["DESIGN"] the one-element list of that comment and leaves history
\* at length 2.
C16_EndToEnd ==
    [][/\ RequirementsStep => NewState.current_stage = USER_STORIES
       /\ (/\ call.kind = "requirements"
           /\ FeedbackStep
           /\ call'.stage = USER_STORIES /\ call'.approved /\ call'.comments = "")
          => /\ PostState.current_stage = DESIGN
             /\ Len(PostState.history) = 2
       /\ (/\ call.kind = "feedback" /\ call.seq = 1
           /\ call.stage = USER_STORIES /\ call.approved /\ call.comments = ""
           /\ FeedbackStep
           /\ call'.stage = DESIGN /\ ~call'.approved /\ call'.comments # "")
          => /\ PostState.current_stage = DESIGN
             /\ PostState.feedback[DESIGN] = <<call'.comments>>
             /\ Len(PostState.history) = 2]_vars

\* C17: an operation that changes a session's current_stage appends exactly
\* one {stage, timestamp} record to history, and an operation that leaves
\* current_stage unchanged appends none.
C17_StageChangeRecorded ==
    [][/\ RequirementsStep =>
             Len(NewState.history) = (IF NewState.current_stage = REQUIREMENTS THEN 0 ELSE 1)
       /\ FeedbackStep =>
             IF PostState.current_stage = PreState.current_stage
             THEN PostState.history = PreState.history
             ELSE /\ Len(PostState.history) = Len(PreState.history) + 1
                  /\ IsPrefix(PreState.history, PostState.history)]_vars

\* the histories of the model: the engine's and every stored session's
Histories == {gstate.history} \cup {sessions[i].state.history : i \in 1..Len(sessions)}

\* C18: history only grows by appending, every entry carries a stage and a
\* timestamp, and the timestamps of successive entries never decrease.
C18_HistoryAppendOnly ==
    /\ [](\A h \in Histories :
             /\ \A i \in 1..Len(h) : {"stage", "timestamp"} \subseteq DOMAIN h[i]
             /\ \A i \in 1..(Len(h) - 1) : h[i].timestamp <= h[i + 1].timestamp)
    /\ [][/\ IsPrefix(gstate.history, gstate'.history)
           /\ \A i \in 1..Len(sessions) :
                  IsPrefix(sessions[i].state.history, sessions'[i].state.history)]_vars

\* C19: in every stored session an artifact is populated only with what its
\* stage's node produced on completing successfully; a node that failed or
\* found its prerequisite missing has left it unpopulated.
C19_ArtifactsOnlyFromSuccess ==
    \A i \in 1..Len(sessions) :
        \A f \in ArtifactFields :
            sessions[i].state[f] # "None" => sessions[i].state[f] \in Generated

\* C20: once a session's current_stage is Complete, every feedback
\* submission, approved or not and for any stage argument, leaves it Complete.
C20_CompleteIsTerminal ==
    [][(FeedbackStep /\ PreState.current_stage = COMPLETE)
        => PostState.current_stage = COMPLETE]_vars

\* C20 witness: a rejected feedback on a session that was on Complete has
\* re-run the graph to its end, and the session is on Complete.
C20_Witness ==
    /\ call.kind = "feedback"
    /\ call.from_stage = COMPLETE
    /\ ~call.approved
    /\ call.invoked
    /\ call.cause # "node"
    /\ sessions[call.session_id].state.current_stage = COMPLETE

-----------------------------------------------------------------------------
(* Claims about the graph builders (GraphSpec) *)

Builds == {built[i] : i \in 1..Len(built)}

\* the graphs build_sdlc_graph's code has produced
DynamicBuilds == {b \in Builds : b.fn \in {"graph_of", "build_sdlc_graph"} /\ ~b.raised}

\* the edges the workflow description prescribes for a classification
PrescribedEdges(high, secure) ==
    {<<"requirements", "user_stories">>, <<"user_stories", "design">>, <<"test", END>>}
        \cup (IF high THEN {<<"design", "architecture_review">>,
                            <<"architecture_review", "code">>}
              ELSE {<<"design", "code">>})
        \cup (IF secure THEN {<<"code", "security">>, <<"security", "test">>}
              ELSE {<<"code", "test">>})

\* C11: the built graph has the backbone requirements, user_stories, design,
\* code, test, End; an architecture_review node between design and code iff
\* complexity is high; a security node between code and test iff
\* security_critical; test connects to End; no other node or edge.
C11_GraphShape ==
    \A b \in DynamicBuilds :
        LET high == b.analysis.complexity = "high"
            secure == b.analysis.security_critical
        IN  /\ b.graph.nodes = {"requirements", "user_stories", "design", "code", "test"}
                                 \cup (IF high THEN {"architecture_review"} ELSE {})
                                 \cup (IF secure THEN {"security"} ELSE {})
            /\ b.graph.edge_set = PrescribedEdges(high, secure)

\* C11 witness: a graph has been built for a high-complexity classification
\* that is not security critical.
C11_Witness ==
    \E b \in DynamicBuilds :
        /\ b.analysis.complexity = "high"
        /\ ~b.analysis.security_critical
        /\ "architecture_review" \in b.graph.nodes

\* C12: every built graph has exactly one entry node, every node has a next
\* step that is a node of the graph or End, and End has no outgoing edge.
C12_GraphWellFormed ==
    \A b \in {x \in Builds : ~x.raised} :
        /\ Cardinality(b.graph.entry_points) = 1
        /\ b.graph.entry_points \subseteq b.graph.nodes
        /\ \A n \in b.graph.nodes :
               /\ b.targets[n] # {}
               /\ b.targets[n] \subseteq b.graph.nodes \cup {END}
               /\ (n \notin b.graph.conditional => Cardinality(b.targets[n]) = 1)
        /\ END \notin b.graph.nodes
        /\ \A e \in b.graph.edge_set : e[1] # END

\* the default record as the workflow description writes it
LiteralDefault ==
    [complexity |-> "medium", security_critical |-> TRUE,
     performance_critical |-> FALSE, data_intensive |-> FALSE,
     user_interface_focused |-> TRUE, integration_heavy |-> FALSE]

\* C13: when the classification call returns text that cannot be parsed, the
\* build raises nothing and the graph has the nodes and edges of the graph
\* built from the literal default record: security present, architecture
\* review absent.
C13_UnparseableGivesDefaultGraph ==
    \A b \in {x \in Builds : x.fn = "build_sdlc_graph" /\ x.response = "unparseable"} :
        /\ ~b.raised
        /\ b.graph.nodes = graph_nodes(LiteralDefault)
        /\ b.graph.edge_set = graph_edges(LiteralDefault)
        /\ b.graph.edge_set = PrescribedEdges(FALSE, TRUE)
        /\ "security" \in b.graph.nodes
        /\ "architecture_review" \notin b.graph.nodes

\* C13 witness: build_sdlc_graph has run on an unparseable classification.
C13_Witness ==
    \E b \in Builds : b.fn = "build_sdlc_graph" /\ b.response = "unparseable" /\ ~b.raised

-----------------------------------------------------------------------------
(* Claims about the front end (AppSpec) *)

\* a step that is a feedback submission of the Streamlit session
AppFeedbackStep == app.created /\ app'.created /\ app'.calls = app.calls + 1

\* c holds the lines of o, in order and together
ContainsText(c, o) ==
    \E i \in 1..(Len(c) + 1) :
        /\ i + Len(o) - 1 <= Len(c)
        /\ \A j \in 1..Len(o) : c[i + j - 1] = o[j]

\* the "Applied Feedback" section for the given comments
AppliedSection(comments) ==
    <<"", "## Applied Feedback">> \o [i \in 1..Len(strip(comments)) |->
                                         "* " \o strip(comments)[i]]

\* C14: when the external feedback-application call fails, the artifact
\* after a rejected feedback is the original content followed by the
\* "Applied Feedback" section listing the feedback lines; a feedback
\* submission never replaces an artifact by content that does not contain
\* the original.
C14_FeedbackNeverLosesContent ==
    [][AppFeedbackStep =>
         /\ (app'.last.revised /\ app'.last.external = "failed") =>
                \A f \in revised_fields(app'.last.stage) :
                    app'.state[f] = app.state[f] \o AppliedSection(app'.last.comments)
         /\ \A f \in AppFields : ContainsText(app'.state[f], app.state[f])]_vars

-----------------------------------------------------------------------------
(* Claims about the endpoints (ApiSpec) *)

\* C15: a session-keyed operation (get session, submit feedback, get
\* monitoring, get artifact) reports not-found exactly when the id is not in
\* the store, and leaves the store unchanged when it does.
C15_NotFoundIffAbsent ==
    /\ [](response.endpoint # "none" => (response.status = 404 <=> ~response.known))
    /\ [][(response'.endpoint # "none" /\ response' # response /\ ~response'.known)
            => sessions' = sessions]_vars

-----------------------------------------------------------------------------
(* Claims about the session stores (StoreSpec, Spec) *)

\* C21: a session that is in a store stays in it and keeps belonging to the
\* submission that created it: no step removes an id from the store of
\* app.py or of main.py, and none puts the state of another submission under
\* an id that is taken.
C21_SessionsAreKept ==
    [][/\ \A id \in DOMAIN session_state.sessions :
             /\ id \in DOMAIN session_state'.sessions
             /\ session_state'.sessions[id].submission =
                    session_state.sessions[id].submission
       /\ \A id \in DOMAIN sessions :
             /\ id \in DOMAIN sessions'
             /\ sessions'[id].graph = sessions[id].graph
             /\ sessions'[id].state.requirements = sessions[id].state.requirements
             /\ sessions'[id].state.created_at = sessions[id].state.created_at]_vars

-----------------------------------------------------------------------------
(* Claims about the background tasks (TaskSpec) *)

\* the feedback tasks that have run on a stored session
DoneOn(session_id) ==
    {i \in 1..Len(tasks.done) :
        tasks.done[i].known /\ tasks.done[i].session_id = session_id}

\* C22: the feedback tasks of a session run one after the other, and none of
\* their updates is lost: whatever tasks have run on a stored session, its
\* feedback holds one entry for each task on each stage and its history one
\* entry for each approval.
C22_NoUpdateLost ==
    \A session_id \in SessionIds :
        LET state == sessions[session_id].state
        IN  /\ \A stage \in StageArgs :
                  Len(state.feedback[stage]) >=
                      Cardinality({i \in DoneOn(session_id) : tasks.done[i].stage = stage})
            /\ Len(state.history) >=
                  Cardinality({i \in DoneOn(session_id) : tasks.done[i].approved})

-----------------------------------------------------------------------------
(* Claims about the stage nodes in a graph run (Spec) *)

\* the stages whose node found its prerequisite missing in the run that
\* left this state: the node wrote its message, or the empty dictionary, in
\* place of its artifact
FoundMissing(state) ==
    {stage \in SDLCStage :
        \E f \in ArtifactsOf(stage) : state[f] \in {"placeholder", "empty"}}

\* the session a call has run its graph on to the end, after the call
RunReturned ==
    \/ RequirementsStep /\ call'.cause # "node"
    \/ FeedbackStep /\ call'.invoked /\ call'.cause # "node"

RunState == sessions'[call'.session_id].state

\* C26: a graph run in which a node found its prerequisite missing ends
\* with the session not advanced past the missing stage: current_stage is
\* before that node's own stage in the stage order.
C26_MissingPrerequisiteHolds ==
    [][RunReturned
        => \A stage \in FoundMissing(RunState) :
               index(stages, RunState.current_stage) < index(stages, stage)]_vars

\* the nodes of a session's graph that are not the node of one of the
\* seven stages
ConditionalStages(graph) ==
    graph.nodes \ {stage_node_mapping(stage) : stage \in SDLCStage}

\* C27: the current_stage of every stored session is one of the seven
\* stages or the name of a conditional node of that session's graph.
C27_StageIsKnown ==
    \A session_id \in SessionIds :
        sessions[session_id].state.current_stage
            \in SDLCStage \cup ConditionalStages(sessions[session_id].graph)

\* C27 witness: the store holds a session that a graph run has taken to its
\* last node and an approval has then passed through get_next_stage.
C27_Witness ==
    \E session_id \in SessionIds :
        LET state == sessions[session_id].state
        IN  /\ state.test_results \in Generated
            /\ state.history # <<>>
            /\ state.history[Len(state.history)].stage = COMPLETE
            /\ call.kind = "feedback"
            /\ call.approved

-----------------------------------------------------------------------------
(* Claims about the monitor (MonitorSpec, ApiSpec, Spec) *)

\* the time the claim attributes to stage p over the first n entries of the
\* history: entry i's stage gets the time up to entry i + 1, the last
\* entry's stage the time up to now
RECURSIVE Attributed(_, _, _, _)
Attributed(history, now, p, n) ==
    IF n = 0 THEN 0
    ELSE Attributed(history, now, p, n - 1)
         + (IF history[n].stage # p THEN 0
            ELSE IF n = Len(history) THEN now - history[n].timestamp
            ELSE history[n + 1].timestamp - history[n].timestamp)

\* the calls of the monitor that returned a snapshot for a non-empty history
Snapshots ==
    {i \in 1..Len(monitored) :
        /\ monitored[i].fn = "monitor_workflow_progress"
        /\ ~monitored[i].result.raised
        /\ monitored[i].state.history # <<>>}

\* C23: in the snapshot computed for a history with at least one entry, the
\* keys of phase_times are the stage names that occur in the history, every
\* duration is non-negative, each stage's duration is the time attributed to
\* it (entry i's stage up to entry i + 1, the last entry's stage up to now),
\* and the durations sum to now minus the first entry's timestamp.
C23_PhaseTimes ==
    \A i \in Snapshots :
        LET history == monitored[i].state.history
            now == monitored[i].now
            phase_times == monitored[i].result.monitoring.phase_times
        IN  /\ DOMAIN phase_times = {history[j].stage : j \in 1..Len(history)}
            /\ \A p \in DOMAIN phase_times :
                  /\ phase_times[p] >= 0
                  /\ phase_times[p] = Attributed(history, now, p, Len(history))
            /\ sum_values(phase_times, DOMAIN phase_times) = now - history[1].timestamp

\* C23 witness: a snapshot for a history that returns to its first stage, so
\* that one key collects two intervals, the open one among them.
C23_Witness ==
    \E i \in Snapshots :
        LET history == monitored[i].state.history
        IN  /\ Len(history) = 3
            /\ history[1].stage = history[3].stage
            /\ history[2].stage # history[1].stage
            /\ history[1].timestamp < history[2].timestamp
            /\ history[3].timestamp < monitored[i].now
            /\ monitored[i].result.monitoring.phase_times[history[1].stage] >= 2

\* a step that answers a GET request for a stored session
StoredSessionRequest ==
    response'.requests = response.requests + 1 /\ response'.known

\* the snapshot of a session that has nothing but the given history
SnapshotOf(history, now) ==
    monitor_workflow_progress([new_state("", 0) EXCEPT !.history = history],
                              now, TRUE).monitoring

\* C24: a query that computes the monitoring snapshot changes nothing of the
\* session but its monitoring field, and a snapshot written by a query or at
\* the end of a feedback submission is the one the session's history and the
\* time of the call determine.
C24_MonitoringOnly ==
    [][/\ StoredSessionRequest
           => LET pre == sessions[response'.session_id]
                  post == sessions'[response'.session_id]
              IN  /\ \A f \in DOMAIN pre.state \ {"monitoring"} :
                        post.state[f] = pre.state[f]
                  /\ post.graph = pre.graph
                  /\ post.graph_description = pre.graph_description
                  /\ post.state.monitoring # pre.state.monitoring
                        => post.state.monitoring = SnapshotOf(pre.state.history, clock')
       /\ (call'.seq = call.seq + 1 /\ call'.outcome = "returned")
           => sessions'[call'.session_id].state.monitoring =
                  SnapshotOf(sessions'[call'.session_id].state.history, clock')
      ]_vars

\* C24 witness: the monitoring endpoint has written a snapshot for a session
\* whose submissions had all ended in the monitor's exception.
C24_Witness ==
    /\ response.endpoint = "get_monitoring"
    /\ response.known
    /\ response.status = 200
    /\ call.kind = "feedback"
    /\ call.seq = 1
    /\ call.cause = "monitor"
    /\ sessions[response.session_id].state.monitoring.computed
    /\ sessions[response.session_id].state.monitoring.last_monitored = clock
    /\ sessions[response.session_id].state.history # <<>>

\* a feedback submission whose monitoring had all its numbers and whose
\* insight call raised
InsightFailure ==
    /\ FeedbackStep
    /\ call'.cause = "monitor"
    /\ ~monitor_workflow_progress(PostState, clock', TRUE).raised

\* C25: a stored snapshot holds generated insights exactly when phase_times
\* has two or more phases, and the placeholder otherwise; a feedback
\* submission whose insight call fails still returns, and stores the
\* phase_times and bottlenecks that the history and the time determine.
C25_InsightFailureContained ==
    /\ [](\A session_id \in SessionIds :
             LET monitoring == sessions[session_id].state.monitoring
             IN  monitoring.computed
                 => /\ monitoring.insights \in {"generated", "placeholder"}
                    /\ monitoring.insights = "generated"
                          <=> Cardinality(DOMAIN monitoring.phase_times) >= 2)
    /\ [][InsightFailure
            => /\ call'.outcome = "returned"
               /\ PostState.monitoring.computed
               /\ PostState.monitoring.phase_times =
                      SnapshotOf(PostState.history, clock').phase_times
               /\ PostState.monitoring.bottlenecks =
                      SnapshotOf(PostState.history, clock').bottlenecks]_vars

\* the analyses that returned
Analyses ==
    {i \in 1..Len(monitored) :
        monitored[i].fn = "analyze_workflow_efficiency" /\ ~monitored[i].result.raised}

\* C32: a phase is in bottlenecks exactly when its time is strictly more
\* than 30% of the total over all phases, and the analysis is balanced
\* exactly when the population variance of the percentages around
\* 100 / num_phases is below 400.
C32_BottlenecksAndBalance ==
    \A i \in Analyses :
        LET phase_times == monitored[i].phase_times
            n == Cardinality(DOMAIN phase_times)
            total == sum_values(phase_times, DOMAIN phase_times)
        IN  /\ monitored[i].result.bottlenecks =
                   {p \in DOMAIN phase_times : 10 * phase_times[p] > 3 * total}
            /\ monitored[i].result.balanced
                   <=> 25 * sum_squares(phase_times, DOMAIN phase_times, n, total)
                           < n * n * n * total * total

\* the calls of the monitor in which the insight call, if made, answers
AnsweredMonitorCalls ==
    {i \in 1..Len(monitored) :
        monitored[i].fn = "monitor_workflow_progress" /\ monitored[i].llm_ok}

\* C34: computing the monitoring snapshot succeeds for every history, the
\* empty history of a fresh session and the histories whose accumulated time
\* is zero included: the monitor never fails with a division by zero.
C34_SnapshotAlwaysComputed ==
    \A i \in AnsweredMonitorCalls :
        /\ ~monitored[i].result.raised
        /\ monitored[i].result.monitoring.computed

-----------------------------------------------------------------------------
(* Claims about failed and mismatched session calls (Spec) *)

\* a step that is a process_requirements or process_feedback call ending in
\* an exception of the graph run or of the monitor
FailedCall ==
    /\ call'.outcome = "raised"
    /\ call'.cause \in {"node", "monitor"}

\* C35: when process_requirements or process_feedback ends in such a
\* failure the sessions dictionary is as it was before the call: no feedback
\* entry, stage change or history entry of the call remains, and no session
\* without a completed first run is in the store.
C35_FailedCallLeavesStore ==
    [][FailedCall => sessions' = sessions]_vars

\* a feedback submission on a stored session that names another stage than
\* the one the session is on
MismatchedFeedback ==
    /\ FeedbackStep
    /\ call'.stage # call'.from_stage

\* C36: a feedback submission whose stage argument differs from the
\* session's current_stage does not change current_stage and runs no node:
\* an approval advances the session only when it names the session's stage.
C36_MismatchedFeedbackIsInert ==
    [][MismatchedFeedback
          => /\ PostState.current_stage = PreState.current_stage
             /\ ~call'.invoked]_vars

-----------------------------------------------------------------------------
(* Claims about a session and the nodes of its graph (ClassifiedSpec) *)

\* the stage is the terminal one or its node is in the graph
StageHasNode(stage, graph) ==
    stage = COMPLETE \/ stage_node_mapping(stage) \in graph.nodes

TitleOfNode(n) ==
    CASE n = "requirements" -> "Requirements Analysis"
      [] n = "user_stories" -> "User Story Generation"
      [] n = "design" -> "Design Document Creation"
      [] n = "architecture_review" -> "Architectural Review"
      [] n = "code" -> "Code Generation"
      [] n = "security" -> "Security Review"
      [] n = "test" -> "Test Generation"

\* the nodes of the graph in the order a run visits them from n
RECURSIVE NodesFrom(_, _)
NodesFrom(graph, n) ==
    IF n = END THEN <<>> ELSE <<n>> \o NodesFrom(graph, graph.edges[n])

\* the numbered list of the stages of a graph
StageList(graph) ==
    LET path == NodesFrom(graph, graph.entry)
    IN  [i \in 1..Len(path) |-> [number |-> i, title |-> TitleOfNode(path[i])]]

\* the records state.complexity_analysis can hold: the analyzer's record
\* (main.py 78), or the JSON object the model answered to the complexity
\* prompt of requirement_analysis_node, which is any record
StoredClassifications(state) ==
    IF state.complexity_analysis = "default" THEN {default_analysis}
    ELSE Classifications

\* C38: the classification stored in a session is the one its graph is
\* built from and its description is written from, and the description
\* lists the stages of the graph in the graph's order, numbered from 1.
C38_OneClassificationPerSession ==
    \A session_id \in SessionIds :
        LET session == sessions[session_id]
        IN  /\ \A analysis \in StoredClassifications(session.state) :
                   /\ session.graph = graph_of(analysis)
                   /\ session.graph_description = graph_description_of(analysis)
            /\ session.graph_description = StageList(session.graph)

-----------------------------------------------------------------------------
(* Claims about the retry loop of generate_content (AppSpec) *)

\* the last submission called generate_content
Generation == app.created /\ app.last.kind = "feedback"
                  /\ app.last.external \in {"answered", "failed"}

\* C39: generate_content calls the model at most 3 times, makes a further
\* attempt only after an attempt that failed with a 503, and returns text:
\* the model's answer when an attempt answered, else one of its two error
\* messages.
C39_BoundedRetries ==
    Generation =>
        LET attempts == app.last.attempts
            generated == app.last.generated
        IN  /\ generated.calls = Len(attempts)
            /\ Len(attempts) \in 1..3
            /\ \A i \in 1..(Len(attempts) - 1) : attempts[i] = "unavailable"
            /\ generated.answered <=> attempts[Len(attempts)] = "answered"
            /\ IF generated.answered
               THEN generated.content \in {revision(<<>>, llm_text) :
                                              llm_text \in {"extends", "rewrites"}}
               ELSE generated.content \in {<<"# Service Currently Unavailable">>,
                                            <<"# Error Generating Content">>}

\* C39 witness: two attempts failed with a 503 and the third was made.
C39_Witness ==
    /\ Generation
    /\ Len(app.last.attempts) = 3
    /\ app.last.attempts[1] = "unavailable"
    /\ app.last.attempts[2] = "unavailable"

-----------------------------------------------------------------------------
(* Claims about a requirements submission over HTTP (SubmitSpec) *)

\* the submissions whose processing has finished and stored a session
Processed == {i \in 1..Len(tasks.done) : tasks.done[i].stored}

\* C33: the session id in the response to a requirements submission is the
\* key of the session its processing stores: once the processing has
\* finished, the store has that session under the returned id, and a get
\* session or a feedback submission with the returned id finds it.
C33_ReturnedIdIsStoredKey ==
    \A i \in Processed :
        /\ tasks.done[i].returned = tasks.done[i].key
        /\ sessions_get(tasks.done[i].returned) \in SessionIds
        /\ response.endpoint \in {"get_session", "submit_feedback"}
               /\ response.session_id = tasks.done[i].returned
           => response.known

-----------------------------------------------------------------------------
(* Claims about the analyzer and the description (GraphSpec, Spec) *)

\* what a parseable response states about the two attributes the builder reads
StatedComplexity(llm_response) ==
    IF llm_response = "json_high_not_security" THEN "high" ELSE "low"

StatedSecurity(llm_response) == llm_response = "json_low_security"

\* C31: a build whose classification call returned a parseable response uses
\* the classification stated in it: the complexity and security_critical of
\* the analysis are the stated ones, the graph has architecture_review
\* exactly when the stated complexity is high and security exactly when
\* security_critical is stated true; the default record is used only for a
\* response that cannot be parsed.
C31_ParsedClassificationUsed ==
    \A b \in {x \in Builds : x.fn = "build_sdlc_graph" /\ ~x.raised} :
        IF b.response = "unparseable"
        THEN b.analysis = LiteralDefault
        ELSE /\ b.analysis.complexity = StatedComplexity(b.response)
             /\ b.analysis.security_critical = StatedSecurity(b.response)
             /\ "architecture_review" \in b.graph.nodes
                    <=> StatedComplexity(b.response) = "high"
             /\ "security" \in b.graph.nodes <=> StatedSecurity(b.response)

====
